---- MODULE Spec2Model ----
(***************************************************************************)
(* A model of kite's citation-network analyzer                             *)
(* (kite/utils/citation_network.py, class CitationNetworkAnalyzer).        *)
(*                                                                         *)
(* The analyzer keeps two dictionaries of sets, graph (citing -> cited)    *)
(* and reverse_graph (cited -> citing), and a dictionary of metadata.      *)
(* A Python dict is modelled as a TLA+ function whose DOMAIN is the set    *)
(* of keys, so that "the key is absent" and "the key maps to the empty     *)
(* set" are different states, as they are for a defaultdict.               *)
(*                                                                         *)
(* Scores are Python floats obtained by dividing small integers.  They     *)
(* are modelled as exact fractions in lowest terms: two quotients of       *)
(* integers of this size are the same float exactly when they are the      *)
(* same rational number.  The influence (authority + hub) / 2 adds two     *)
(* such floats; cases whose exact influences differ keep their order in    *)
(* floats, and cases whose exact influences tie may come out in either     *)
(* order, which the model allows by sorting every iteration order.         *)
(***************************************************************************)
EXTENDS Integers, Sequences, FiniteSets, TLC

\* ------------------------------------------------------------------ bounds

\* longest cited_cases list passed to add_case
MaxCited == 2
\* largest max_depth passed to find_citation_chains
MaxDepth == 3
\* largest limit passed to find_influential_cases
MaxLimit == 4
\* number of add_case calls in the four-case network of ScenarioSpec
MaxCalls == 2

\* case ids of the main specification
CaseIds == {"A", "B", "C"}
\* case ids of ScenarioSpec
ScenarioIds == {"A", "B", "C", "D"}

\* metadata arguments: None, an empty dict (falsy), a non-empty dict
Metadatas == {"None", "{}", "{court}"}

SeqsUpTo(S, n) == UNION {[1..k -> S] : k \in 0..n}

Range(s) == {s[i] : i \in DOMAIN s}

\* ------------------------------------------------------------------ state

VARIABLES
    graph,          \* self.graph: citing -> set of cited
    reverse_graph,  \* self.reverse_graph: cited -> set of citing
    case_metadata,  \* self.case_metadata
    called,         \* history: the case ids passed to add_case
    passed,         \* history: per case id, every id of every cited list passed
    ncalls,         \* number of add_case calls counted by ScenarioSpec
    ret,            \* the query last called, its arguments and what it returned
    similarity_threshold,   \* CaseDeduplicator.similarity_threshold
    _seen_hashes,   \* CaseDeduplicator._seen_hashes
    _seen_ids,      \* CaseDeduplicator._seen_ids
    asked_ids,      \* history: the ids is_duplicate_by_id was called with since
                    \* creation or the last reset
    asked_hashes    \* history: the hashes of the arguments is_duplicate_by_hash
                    \* was called with since creation or the last reset

\* the state of the citation network and its history
network == <<graph, reverse_graph, case_metadata, called, passed, ncalls>>

\* the state of the case deduplicator and its history
deduplicator == <<similarity_threshold, _seen_hashes, _seen_ids, asked_ids, asked_hashes>>

vars == <<network, ret, deduplicator>>

\* what the caller holds after add_case (which returns None) or after it has
\* dropped the result of a query
NoResult == [op |-> "none"]

\* the empty dict
EmptyDict == [k \in {} |-> {}]

\* d.get(k, set())
DictGet(d, k) == IF k \in DOMAIN d THEN d[k] ELSE {}

\* the mapping left behind by d[key] on a defaultdict(set): a missing key is
\* stored with an empty set
getitem_leaves(d, key) ==
    IF key \in DOMAIN d THEN d
    ELSE [k \in DOMAIN d \cup {key} |-> IF k = key THEN {} ELSE d[k]]

\* the mapping left behind by d.get(key, set()): the lookup stores nothing,
\* also on a defaultdict
get_leaves(d, key) == d

\* the mapping left behind by the lookups of every key of keys
RECURSIVE lookups(_, _)
lookups(d, keys) ==
    IF keys = {} THEN d
    ELSE LET key == CHOOSE k \in keys : TRUE
         IN  lookups(get_leaves(d, key), keys \ {key})

\* ------------------------------------------------------------------ add_case

\* GraphUpdate as an assignment: self.graph[case_id] = set(cited_cases)
GraphAssign(g, case_id, cited_cases) ==
    [k \in DOMAIN g \cup {case_id} |->
        IF k = case_id THEN Range(cited_cases) ELSE g[k]]

\* self.graph[case_id].update(cited_cases) on a defaultdict(set)
GraphUpdate(g, case_id, cited_cases) ==
    [k \in DOMAIN g \cup {case_id} |->
        IF k = case_id THEN DictGet(g, k) \cup Range(cited_cases) ELSE g[k]]

\* ReverseAdd that leaves a self-citation out of the reverse map
ReverseAddNoSelf(r, cited, case_id) ==
    IF cited = case_id THEN r
    ELSE [k \in DOMAIN r \cup {cited} |->
            IF k = cited THEN DictGet(r, k) \cup {case_id} ELSE r[k]]

\* self.reverse_graph[cited].add(case_id) on a defaultdict(set)
ReverseAdd(r, cited, case_id) ==
    [k \in DOMAIN r \cup {cited} |->
        IF k = cited THEN DictGet(r, k) \cup {case_id} ELSE r[k]]

\* for cited in cited_cases: self.reverse_graph[cited].add(case_id)
RECURSIVE ReverseUpdate(_, _, _)
ReverseUpdate(r, case_id, cited_cases) ==
    IF cited_cases = <<>> THEN r
    ELSE ReverseUpdate(ReverseAdd(r, Head(cited_cases), case_id),
                       case_id, Tail(cited_cases))

\* if metadata: self.case_metadata[case_id] = metadata
MetadataUpdate(md, case_id, metadata) ==
    IF metadata \in {"None", "{}"} THEN md
    ELSE [k \in DOMAIN md \cup {case_id} |->
            IF k = case_id THEN metadata ELSE md[k]]

add_case(case_id, cited_cases, metadata) ==
    /\ graph' = GraphUpdate(graph, case_id, cited_cases)
    /\ reverse_graph' = ReverseUpdate(reverse_graph, case_id, cited_cases)
    /\ case_metadata' = MetadataUpdate(case_metadata, case_id, metadata)
    /\ called' = called \cup {case_id}
    /\ passed' = [passed EXCEPT ![case_id] = @ \cup Range(cited_cases)]
    /\ ret' = NoResult

\* ------------------------------------------------------------------ scores

RECURSIVE GCD(_, _)
GCD(a, b) == IF b = 0 THEN a ELSE GCD(b, a % b)

\* the float a / b, as a fraction in lowest terms; den = 0 stands for the
\* ZeroDivisionError Python raises when b = 0
Div(a, b) ==
    IF b = 0 THEN [num |-> 0, den |-> 0]
    ELSE [num |-> a \div GCD(a, b), den |-> b \div GCD(a, b)]

Zero == [num |-> 0, den |-> 1]
\* similarity_threshold: float = 0.85
DefaultThreshold == [num |-> 17, den |-> 20]
One == [num |-> 1, den |-> 1]

IsError(q) == q.den = 0

\* min(q, 1.0)
Min1(q) == IF IsError(q) THEN q ELSE IF q.num > q.den THEN One ELSE q

\* q1 < q2, q1 <= q2 on floats
Less(q1, q2) == q1.num * q2.den < q2.num * q1.den
LessEq(q1, q2) == q1.num * q2.den <= q2.num * q1.den

\* max of a non-empty set of integers
SetMax(S) == CHOOSE m \in S : \A x \in S : x <= m

\* max_citations as the number of cited cases: len(self.reverse_graph)
max_citations_keys ==
    IF DOMAIN reverse_graph # {} THEN Cardinality(DOMAIN reverse_graph) ELSE 1

\* max(len(citing) for citing in self.reverse_graph.values()) if self.reverse_graph else 1
max_citations ==
    IF DOMAIN reverse_graph # {}
    THEN SetMax({Cardinality(reverse_graph[k]) : k \in DOMAIN reverse_graph})
    ELSE 1

\* _calculate_authority_score without the early return and with 0, not 1, as
\* the maximum of an empty network
_calculate_authority_score_unguarded(case_id) ==
    LET citation_count == Cardinality(DictGet(reverse_graph, case_id))
    IN  Min1(Div(citation_count,
                 IF DOMAIN reverse_graph # {}
                 THEN SetMax({Cardinality(reverse_graph[k]) : k \in DOMAIN reverse_graph})
                 ELSE 0))

_calculate_authority_score(case_id) ==
    LET citation_count == Cardinality(DictGet(reverse_graph, case_id))
    IN  IF citation_count = 0 THEN Zero
        ELSE Min1(Div(citation_count, max_citations))

\* total_authority that sums over the forward map: len(self.graph.get(cited, set()))
RECURSIVE total_authority_forward(_)
total_authority_forward(cited_cases) ==
    IF cited_cases = {} THEN 0
    ELSE LET cited == CHOOSE x \in cited_cases : TRUE
         IN  Cardinality(DictGet(graph, cited))
               + total_authority_forward(cited_cases \ {cited})

\* sum(len(self.reverse_graph.get(cited, set())) for cited in cited_cases)
RECURSIVE total_authority(_)
total_authority(cited_cases) ==
    IF cited_cases = {} THEN 0
    ELSE LET cited == CHOOSE x \in cited_cases : TRUE
         IN  Cardinality(DictGet(reverse_graph, cited))
               + total_authority(cited_cases \ {cited})

\* len(cited_cases) * max(...) if self.reverse_graph else 1
max_possible(cited_cases) ==
    IF DOMAIN reverse_graph # {}
    THEN Cardinality(cited_cases)
           * SetMax({Cardinality(reverse_graph[k]) : k \in DOMAIN reverse_graph})
    ELSE 1

_calculate_hub_score(case_id) ==
    LET cited_cases == DictGet(graph, case_id)
    IN  IF cited_cases = {} THEN Zero
        ELSE Min1(IF max_possible(cited_cases) > 0
                  THEN Div(total_authority(cited_cases), max_possible(cited_cases))
                  ELSE Zero)

get_metrics(case_id) ==
    [case_id |-> case_id,
     in_degree |-> Cardinality(DictGet(reverse_graph, case_id)),
     out_degree |-> Cardinality(DictGet(graph, case_id)),
     authority_score |-> _calculate_authority_score(case_id),
     hub_score |-> _calculate_hub_score(case_id)]

\* ------------------------------------------------------------------ find_influential_cases

\* every order in which Python may iterate over the set S
Orders(S) == {s \in [1..Cardinality(S) -> S] : Range(s) = S}

\* the elements of S in the order they have in ord (ord lists every id once)
Iterate(S, ord) == SelectSeq(ord, LAMBDA x : x \in S)

\* set(self.graph.keys()) | set(self.reverse_graph.keys())
all_cases == DOMAIN graph \cup DOMAIN reverse_graph

\* (metrics.authority_score + metrics.hub_score) / 2
Influence(metrics) ==
    LET a == metrics.authority_score
        h == metrics.hub_score
    IN  Div(a.num * h.den + h.num * a.den, 2 * a.den * h.den)

\* the list built by the loop over all_cases, iterated in the order ord
CaseMetrics(ord) ==
    [i \in DOMAIN ord |->
        [case_id |-> ord[i],
         metrics |-> get_metrics(ord[i]),
         influence |-> Influence(get_metrics(ord[i]))]]

\* InsertDesc for an ascending sort (reverse=True forgotten)
InsertAsc(s, x) ==
    LET ahead == {i \in DOMAIN s : ~Less(x.influence, s[i].influence)}
        n == Cardinality(ahead)
    IN  SubSeq(s, 1, n) \o <<x>> \o SubSeq(s, n + 1, Len(s))

\* x placed into the sorted list s behind every entry that does not rank below it
InsertDesc(s, x) ==
    LET ahead == {i \in DOMAIN s : ~Less(s[i].influence, x.influence)}
        n == Cardinality(ahead)
    IN  SubSeq(s, 1, n) \o <<x>> \o SubSeq(s, n + 1, Len(s))

\* case_metrics.sort(key=lambda x: x[2], reverse=True): a stable sort, so that
\* entries of equal influence stay in the order they had
RECURSIVE SortDesc(_)
SortDesc(s) ==
    IF s = <<>> THEN <<>>
    ELSE InsertDesc(SortDesc(SubSeq(s, 1, Len(s) - 1)), s[Len(s)])

\* s[:limit] for limit >= 0
Take(s, limit) == SubSeq(s, 1, IF limit < Len(s) THEN limit ELSE Len(s))

find_influential_cases(limit, ord) ==
    LET sorted == Take(SortDesc(CaseMetrics(ord)), limit)
    IN  [i \in DOMAIN sorted |->
            [case_id |-> sorted[i].case_id, metrics |-> sorted[i].metrics]]

\* ------------------------------------------------------------------ find_citation_chains

\* the chains appended by dfs(current, target, path, depth); the cited set is
\* iterated in the order its elements have in ord
RECURSIVE dfs(_, _, _, _, _, _)
RECURSIVE dfs_loop(_, _, _, _, _, _)

\* dfs that gives up one level early: if depth >= max_depth
dfs_early(current, target, path, depth, max_depth, ord) ==
    IF depth >= max_depth THEN <<>>
    ELSE IF current = target THEN <<path>>
    ELSE dfs_loop(Iterate(DictGet(graph, current), ord),
                  target, path, depth, max_depth, ord)

\* dfs_loop without the test "if cited not in path"
RECURSIVE dfs_loop_revisit(_, _, _, _, _, _)
dfs_loop_revisit(todo, target, path, depth, max_depth, ord) ==
    IF todo = <<>> THEN <<>>
    ELSE dfs(Head(todo), target, Append(path, Head(todo)),
             depth + 1, max_depth, ord)
         \o dfs_loop_revisit(Tail(todo), target, path, depth, max_depth, ord)

dfs(current, target, path, depth, max_depth, ord) ==
    IF depth > max_depth THEN <<>>
    ELSE IF current = target THEN <<path>>
    ELSE dfs_loop(Iterate(DictGet(graph, current), ord),
                  target, path, depth, max_depth, ord)

\* for cited in ...: if cited not in path: path.append(cited); dfs(...); path.pop()
dfs_loop(todo, target, path, depth, max_depth, ord) ==
    IF todo = <<>> THEN <<>>
    ELSE (IF Head(todo) \notin Range(path)
          THEN dfs(Head(todo), target, Append(path, Head(todo)),
                   depth + 1, max_depth, ord)
          ELSE <<>>)
         \o dfs_loop(Tail(todo), target, path, depth, max_depth, ord)

find_citation_chains(start_case, end_case, max_depth, ord) ==
    dfs(start_case, end_case, <<start_case>>, 1, max_depth, ord)

\* ------------------------------------------------------------------ get_co_citation_network

\* counter[k] += 1 on a Counter
Increment(counter, k) ==
    [x \in DOMAIN counter \cup {k} |->
        IF x = k THEN (IF k \in DOMAIN counter THEN counter[k] ELSE 0) + 1
        ELSE counter[x]]

\* CountCoCited without the test "if co_cited != case_id"
RECURSIVE CountCoCitedAll(_, _, _)
CountCoCitedAll(counter, cited_by_this, case_id) ==
    IF cited_by_this = {} THEN counter
    ELSE LET co_cited == CHOOSE x \in cited_by_this : TRUE
         IN  CountCoCitedAll(Increment(counter, co_cited),
                             cited_by_this \ {co_cited}, case_id)

\* for co_cited in cited_by_this: if co_cited != case_id: co_citations[co_cited] += 1
RECURSIVE CountCoCited(_, _, _)
CountCoCited(counter, cited_by_this, case_id) ==
    IF cited_by_this = {} THEN counter
    ELSE LET co_cited == CHOOSE x \in cited_by_this : TRUE
         IN  CountCoCited(IF co_cited # case_id THEN Increment(counter, co_cited)
                          ELSE counter,
                          cited_by_this \ {co_cited}, case_id)

\* for citing_case in citing_cases: ...
RECURSIVE CountCiting(_, _, _)
CountCiting(counter, citing_cases, case_id) ==
    IF citing_cases = {} THEN counter
    ELSE LET citing_case == CHOOSE x \in citing_cases : TRUE
         IN  CountCiting(CountCoCited(counter, DictGet(graph, citing_case), case_id),
                         citing_cases \ {citing_case}, case_id)

get_co_citation_network(case_id) ==
    CountCiting([k \in {} |-> 0], DictGet(reverse_graph, case_id), case_id)

\* ------------------------------------------------------------------ get_network_stats

\* total_citations as the number of citing cases: len(self.graph)
total_citations_keys(keys) == Cardinality(keys)

\* sum(len(cited) for cited in self.graph.values())
RECURSIVE total_citations(_)
total_citations(keys) ==
    IF keys = {} THEN 0
    ELSE LET k == CHOOSE x \in keys : TRUE
         IN  Cardinality(graph[k]) + total_citations(keys \ {k})

\* max(((case_id, len(citing)) ...), key=lambda x: x[1], default=("none", 0)):
\* the first entry of largest count in the dict's iteration order, so any
\* entry of largest count
MostCited ==
    IF DOMAIN reverse_graph = {} THEN {<<"none", 0>>}
    ELSE {<<k, Cardinality(reverse_graph[k])>> : k \in
            {k \in DOMAIN reverse_graph :
                \A j \in DOMAIN reverse_graph :
                    Cardinality(reverse_graph[j]) <= Cardinality(reverse_graph[k])}}

get_network_stats(most_cited) ==
    [total_cases |-> Cardinality(all_cases),
     total_citations |-> total_citations(DOMAIN graph),
     avg_citations_per_case |->
        IF all_cases # {}
        THEN Div(total_citations(DOMAIN graph), Cardinality(all_cases))
        ELSE Zero,
     most_cited_case |-> most_cited[1],
     most_cited_count |-> most_cited[2]]

\* ------------------------------------------------------------------ specification

(***************************************************************************)
(* One sequential caller uses the analyzer: it calls an operation, and     *)
(* when the operation was a query it holds the result (ret) until it       *)
(* drops it and calls the next operation.                                  *)
(***************************************************************************)

\* CitationNetworkAnalyzer()
NetworkInit ==
    /\ graph = EmptyDict
    /\ reverse_graph = EmptyDict
    /\ case_metadata = EmptyDict
    /\ called = {}
    /\ passed = [c \in ScenarioIds |-> {}]
    /\ ncalls = 0

\* CaseDeduplicator(similarity_threshold=threshold)
DeduplicatorInit(threshold) ==
    /\ similarity_threshold = threshold
    /\ _seen_hashes = {}
    /\ _seen_ids = {}
    /\ asked_ids = {}
    /\ asked_hashes = {}

Init ==
    /\ NetworkInit
    /\ DeduplicatorInit(DefaultThreshold)
    /\ ret = NoResult

Idle == ret = NoResult

frame == <<network, deduplicator>>

AddCaseOver(ids, metadatas) ==
    /\ Idle
    /\ \E case_id \in ids, cited_cases \in SeqsUpTo(ids, MaxCited),
          metadata \in metadatas :
            add_case(case_id, cited_cases, metadata)
    /\ UNCHANGED deduplicator

\* what a query leaves of the maps: self.graph after the lookups of
\* graph_keys, self.reverse_graph after the lookups of reverse_keys; no query
\* names self.case_metadata
Lookups(graph_keys, reverse_keys) ==
    /\ graph' = lookups(graph, graph_keys)
    /\ reverse_graph' = lookups(reverse_graph, reverse_keys)
    /\ UNCHANGED <<case_metadata, called, passed, ncalls, deduplicator>>

\* the cases whose cited set dfs looks up: every current case below the
\* depth limit that is not the target
RECURSIVE visited(_, _, _, _, _)
visited(current, target, path, depth, max_depth) ==
    IF depth > max_depth \/ current = target THEN {}
    ELSE {current} \cup
         UNION {visited(cited, target, Append(path, cited), depth + 1, max_depth) :
                    cited \in DictGet(graph, current) \ Range(path)}

GetMetricsOver(ids) ==
    /\ Idle
    /\ \E case_id \in ids :
        /\ ret' = [op |-> "get_metrics", case_id |-> case_id,
                   value |-> get_metrics(case_id)]
        /\ Lookups({case_id}, {case_id} \cup DictGet(graph, case_id))

FindInfluentialCasesOver(ids) ==
    /\ Idle
    /\ \E limit \in 0..MaxLimit, ord \in Orders(all_cases) :
        ret' = [op |-> "find_influential_cases", limit |-> limit,
                value |-> find_influential_cases(limit, ord)]
    /\ Lookups(all_cases, all_cases)

FindCitationChainsOver(ids) ==
    /\ Idle
    /\ \E start_case \in ids, end_case \in ids, max_depth \in 0..MaxDepth,
          ord \in Orders(ids) :
        /\ ret' = [op |-> "find_citation_chains", start_case |-> start_case,
                   end_case |-> end_case, max_depth |-> max_depth,
                   value |-> find_citation_chains(start_case, end_case, max_depth, ord)]
        /\ Lookups(visited(start_case, end_case, <<start_case>>, 1, max_depth), {})

GetCoCitationNetworkOver(ids) ==
    /\ Idle
    /\ \E case_id \in ids :
        /\ ret' = [op |-> "get_co_citation_network", case_id |-> case_id,
                   value |-> get_co_citation_network(case_id)]
        /\ Lookups(DictGet(reverse_graph, case_id), {case_id})

GetNetworkStats ==
    /\ Idle
    /\ \E most_cited \in MostCited :
        ret' = [op |-> "get_network_stats", value |-> get_network_stats(most_cited)]
    /\ Lookups({}, {})

\* the caller drops the result it holds
DropResult ==
    /\ ~Idle
    /\ ret' = NoResult
    /\ UNCHANGED frame

AddCase == AddCaseOver(CaseIds, Metadatas) /\ UNCHANGED ncalls
GetMetrics == GetMetricsOver(CaseIds)
FindInfluentialCases == FindInfluentialCasesOver(CaseIds)
FindCitationChains == FindCitationChainsOver(CaseIds)
GetCoCitationNetwork == GetCoCitationNetworkOver(CaseIds)

Next ==
    \/ AddCase
    \/ GetMetrics
    \/ FindInfluentialCases
    \/ FindCitationChains
    \/ GetCoCitationNetwork
    \/ GetNetworkStats
    \/ DropResult

Spec == Init /\ [][Next]_vars

(***************************************************************************)
(* The network of four cases A, B, C, D built by at most MaxCalls calls    *)
(* of add_case(case_id, cited_cases), and its metrics and co-citations.    *)
(***************************************************************************)

ScenarioAddCase ==
    /\ ncalls < MaxCalls
    /\ AddCaseOver(ScenarioIds, {"None"})
    /\ ncalls' = ncalls + 1
ScenarioGetMetrics == GetMetricsOver(ScenarioIds)
ScenarioGetCoCitationNetwork == GetCoCitationNetworkOver(ScenarioIds)

ScenarioNext ==
    \/ ScenarioAddCase
    \/ ScenarioGetMetrics
    \/ ScenarioGetCoCitationNetwork
    \/ DropResult

ScenarioSpec == Init /\ [][ScenarioNext]_vars

\* ------------------------------------------------------------------ reference notions

\* the ids that were passed to add_case, as citer or in a cited list
Known == called \cup UNION {passed[c] : c \in called}

\* the citations that were passed to add_case
Edges == {e \in called \X ScenarioIds : e[2] \in passed[e[1]]}

\* the distinct cases that cite c, the distinct cases c cites
Citers(c) == {x \in ScenarioIds : <<x, c>> \in Edges}
Cited(c) == {d \in ScenarioIds : <<c, d>> \in Edges}

InDegree(c) == Cardinality(Citers(c))
OutDegree(c) == Cardinality(Cited(c))

\* the largest in-degree of any case in the network
NetMaxIn == SetMax({InDegree(c) : c \in Known} \cup {0})

RECURSIVE SumInDegrees(_)
SumInDegrees(S) ==
    IF S = {} THEN 0
    ELSE LET c == CHOOSE x \in S : TRUE IN InDegree(c) + SumInDegrees(S \ {c})

\* the number of distinct cases that cite both c and x
CoCount(c, x) == Cardinality(Citers(c) \cap Citers(x))

\* add_case("A", ["B", "C"]) and add_case("D", ["B"]) have been called
ScenarioDone ==
    /\ called = {"A", "D"}
    /\ passed["A"] = {"B", "C"}
    /\ passed["D"] = {"B"}

\* the number of times s lists p
Occurrences(s, p) == Cardinality({i \in DOMAIN s : s[i] = p})

NoRepeat(p) == \A i, j \in DOMAIN p : p[i] = p[j] => i = j

\* the simple paths of the forward graph from a to b
SimplePaths(a, b) ==
    {p \in SeqsUpTo(CaseIds, Cardinality(CaseIds)) :
        /\ Len(p) >= 1
        /\ p[1] = a
        /\ p[Len(p)] = b
        /\ NoRepeat(p)
        /\ \A i \in 1..(Len(p) - 1) : p[i + 1] \in DictGet(graph, p[i])}

\* ------------------------------------------------------------------ claims

\* C1: after any sequence of add_case calls the forward and the reverse map
\* mirror each other: d is in graph[c] if and only if c is in reverse_graph[d].
C1_Mirror ==
    \A c, d \in ScenarioIds :
        (c \in DOMAIN graph /\ d \in graph[c])
            <=> (d \in DOMAIN reverse_graph /\ c \in reverse_graph[d])

\* a network with a self-citation, a case added with an empty cited list and
\* a case added by more than one call
C1_Witness ==
    /\ ret = NoResult
    /\ \E c \in DOMAIN graph : c \in graph[c]
    /\ \E c \in DOMAIN graph : graph[c] = {}
    /\ \E c \in DOMAIN graph : Cardinality(graph[c]) > MaxCited

\* C2: add_case inserts by union: graph[c] is the union of the cited lists
\* passed for c (so no call removes an edge and the maps are a function of the
\* set of calls, whatever their order), and repeating a call changes neither map.
C2_Union ==
    /\ graph = [c \in called |-> passed[c]]
    /\ reverse_graph =
          [d \in UNION {passed[c] : c \in called} |-> {c \in called : d \in passed[c]}]
    /\ ret = NoResult =>
          \A c \in CaseIds, l \in SeqsUpTo(CaseIds, MaxCited) :
              LET g1 == GraphUpdate(graph, c, l)
                  r1 == ReverseUpdate(reverse_graph, c, l)
              IN  /\ GraphUpdate(g1, c, l) = g1
                  /\ ReverseUpdate(r1, c, l) = r1

\* a case whose edges came from several calls, one of them with fewer ids
C2_Witness ==
    /\ ret = NoResult
    /\ \E c \in called : Cardinality(graph[c]) > MaxCited
    /\ \E c \in called, d \in called : c # d /\ graph[c] # {} /\ graph[d] # {}

\* C3: every chain find_citation_chains(start, end, k) returns begins with
\* start, ends with end, follows forward edges, repeats no node and has at
\* most k + 1 nodes.
C3_ChainsSound ==
    ret.op = "find_citation_chains" =>
        \A i \in DOMAIN ret.value :
            LET p == ret.value[i]
            IN  /\ Len(p) >= 1
                /\ p[1] = ret.start_case
                /\ p[Len(p)] = ret.end_case
                /\ \A j \in 1..(Len(p) - 1) : p[j + 1] \in DictGet(graph, p[j])
                /\ NoRepeat(p)
                /\ Len(p) <= ret.max_depth + 1

\* two chains are returned, one of three nodes, in a network with a cycle
C3_Witness ==
    /\ ret.op = "find_citation_chains"
    /\ Len(ret.value) >= 2
    /\ \E i \in DOMAIN ret.value : Len(ret.value[i]) = 3
    /\ \E c \in DOMAIN graph : \E d \in graph[c] :
          c # d /\ c \in DictGet(graph, d)

\* C4 as stated, on the calls with k >= 1 and start # end: every simple path
\* from start to end of at most k edges is returned, exactly once.
C4_Original ==
    (ret.op = "find_citation_chains" /\ ret.max_depth >= 1
        /\ ret.start_case # ret.end_case) =>
        \A p \in SimplePaths(ret.start_case, ret.end_case) :
            Len(p) - 1 <= ret.max_depth => Occurrences(ret.value, p) = 1

\* C4 amended: the chains returned are the simple paths from start to end of
\* at most k nodes (k - 1 edges), each exactly once; a simple path of k edges
\* is not returned.
C4_Exhaustive ==
    ret.op = "find_citation_chains" =>
        /\ \A p \in SimplePaths(ret.start_case, ret.end_case) :
              Occurrences(ret.value, p) = IF Len(p) <= ret.max_depth THEN 1 ELSE 0
        /\ \A i \in DOMAIN ret.value :
              ret.value[i] \in SimplePaths(ret.start_case, ret.end_case)

\* max_depth is 2 and there are a path of one edge, which is returned, and a
\* path of two edges, which is not
C4_Witness ==
    /\ ret.op = "find_citation_chains"
    /\ ret.max_depth = 2
    /\ Len(ret.value) = 1
    /\ \E p \in SimplePaths(ret.start_case, ret.end_case) : Len(p) = 3

\* C5 as stated: in_degree and out_degree are the numbers of distinct citers
\* and cited cases, authority_score is in_degree over the largest in-degree of
\* the network, lies in [0, 1], is 0 exactly when the case was never cited and
\* is 1 for every case of the network whose in-degree is the network maximum.
C5_Original ==
    ret.op = "get_metrics" =>
        LET c == ret.case_id
            a == ret.value.authority_score
        IN  /\ ret.value.in_degree = InDegree(c)
            /\ ret.value.out_degree = OutDegree(c)
            /\ ~IsError(a)
            /\ a.num * NetMaxIn = InDegree(c) * a.den
            /\ LessEq(Zero, a) /\ LessEq(a, One)
            /\ a = Zero <=> InDegree(c) = 0
            /\ (c \in Known /\ InDegree(c) = NetMaxIn) => a = One

\* C5 amended: as C5, but authority_score is 1 for the cases whose in-degree
\* is the network maximum only when that maximum is at least 1; in a network
\* without citations every authority_score is 0.
C5_Authority ==
    ret.op = "get_metrics" =>
        LET c == ret.case_id
            a == ret.value.authority_score
        IN  /\ ret.value.in_degree = InDegree(c)
            /\ ret.value.out_degree = OutDegree(c)
            /\ ~IsError(a)
            /\ a.num * NetMaxIn = InDegree(c) * a.den
            /\ LessEq(Zero, a) /\ LessEq(a, One)
            /\ a = Zero <=> InDegree(c) = 0
            /\ (NetMaxIn >= 1 /\ InDegree(c) = NetMaxIn) => a = One
            /\ NetMaxIn = 0 => a = Zero

\* the metrics of a case cited once in a network whose most cited case is
\* cited three times
C5_Witness ==
    /\ ret.op = "get_metrics"
    /\ ret.value.in_degree = 1
    /\ ret.value.out_degree >= 1
    /\ ret.value.authority_score = [num |-> 1, den |-> 3]

\* C6: hub_score is the sum of the in-degrees of the cases c cites over
\* (out_degree * largest in-degree of the network), lies in [0, 1] and is 0
\* exactly when c cites nothing.
C6_Hub ==
    ret.op = "get_metrics" =>
        LET c == ret.case_id
            h == ret.value.hub_score
        IN  /\ ~IsError(h)
            /\ h.num * (OutDegree(c) * NetMaxIn) = SumInDegrees(Cited(c)) * h.den
            /\ LessEq(Zero, h) /\ LessEq(h, One)
            /\ h = Zero <=> OutDegree(c) = 0

\* the hub score of a case that cites two cases of different in-degree
C6_Witness ==
    /\ ret.op = "get_metrics"
    /\ ret.value.out_degree = 2
    /\ Less(Zero, ret.value.hub_score) /\ Less(ret.value.hub_score, One)

\* C7: a query about an id that was never passed to add_case returns the
\* defaults and no error: zero metrics, an empty co-citation mapping, and no
\* chain from or to that id (start # end).
C7_Unknown ==
    /\ (ret.op = "get_metrics" /\ ret.case_id \notin Known) =>
          ret.value = [case_id |-> ret.case_id, in_degree |-> 0, out_degree |-> 0,
                       authority_score |-> Zero, hub_score |-> Zero]
    /\ (ret.op = "get_co_citation_network" /\ ret.case_id \notin Known) =>
          DOMAIN ret.value = {}
    /\ (ret.op = "find_citation_chains" /\ ret.start_case # ret.end_case
          /\ (ret.start_case \notin Known \/ ret.end_case \notin Known)) =>
          Len(ret.value) = 0

\* a query about an unknown id on a network that has citations
C7_Witness ==
    /\ Edges # {}
    /\ \/ ret.op \in {"get_metrics", "get_co_citation_network"}
            /\ ret.case_id \notin Known
       \/ ret.op = "find_citation_chains" /\ ret.max_depth >= 2
            /\ ret.start_case \in Known /\ ret.end_case \notin Known

\* C8: get_co_citation_network(c) maps each case x # c to the number of
\* distinct cases that cite both c and x, has no entry of count 0 and no key
\* c; after add_case("A", ["B", "C"]) and add_case("D", ["B"]) the in-degree
\* of B is 2 and the co-citation network of B is {C: 1}.
C8_CoCitation ==
    /\ ret.op = "get_co_citation_network" =>
          ret.value = [x \in {x \in ScenarioIds \ {ret.case_id} :
                                 CoCount(ret.case_id, x) > 0}
                         |-> CoCount(ret.case_id, x)]
    /\ (ScenarioDone /\ ret.op = "get_metrics" /\ ret.case_id = "B") =>
          ret.value.in_degree = 2
    /\ (ScenarioDone /\ ret.op = "get_co_citation_network" /\ ret.case_id = "B") =>
          (DOMAIN ret.value = {"C"} /\ ret.value["C"] = 1)

\* the co-citation network of B after the two calls of the scenario
C8_Witness ==
    /\ ScenarioDone
    /\ ncalls = 2
    /\ ret.op = "get_co_citation_network"
    /\ ret.case_id = "B"

\* C9: get_network_stats reports the number of ids that appear as citer or
\* cited, the number of distinct edges (the sum of the in-degrees), the largest
\* in-degree with a case that attains it ("none" and 0 without edges), and
\* total_citations / total_cases as the average (0 for the empty network).
C9_Stats ==
    ret.op = "get_network_stats" =>
        LET v == ret.value
        IN  /\ v.total_cases = Cardinality(Known)
            /\ v.total_citations = Cardinality(Edges)
            /\ v.total_citations = SumInDegrees(ScenarioIds)
            /\ v.most_cited_count = NetMaxIn
            /\ Edges # {} =>
                  (v.most_cited_case \in Known
                     /\ InDegree(v.most_cited_case) = NetMaxIn)
            /\ Edges = {} => (v.most_cited_case = "none" /\ v.most_cited_count = 0)
            /\ ~IsError(v.avg_citations_per_case)
            /\ v.avg_citations_per_case.num * Cardinality(Known)
                  = Cardinality(Edges) * v.avg_citations_per_case.den
            /\ Known = {} => v.avg_citations_per_case = Zero

\* the statistics of a network of three cases in which two cases tie for
\* most cited and the later of them is reported
C9_Witness ==
    /\ ret.op = "get_network_stats"
    /\ ret.value.total_cases = 3
    /\ ret.value.most_cited_count = 2
    /\ ret.value.most_cited_case = "C"
    /\ InDegree("A") = 2
    /\ ret.value.avg_citations_per_case = [num |-> 5, den |-> 3]

\* C10: find_influential_cases(limit), limit >= 0, returns min(limit, number
\* of cases) distinct cases of the network in non-increasing order of
\* (authority_score + hub_score) / 2, and no case left out has an influence
\* greater than a case returned.
C10_Influential ==
    ret.op = "find_influential_cases" =>
        LET v == ret.value
            ids == {v[i].case_id : i \in DOMAIN v}
            infl(c) == Influence(get_metrics(c))
        IN  /\ Len(v) = IF ret.limit < Cardinality(Known) THEN ret.limit
                         ELSE Cardinality(Known)
            /\ \A i, j \in DOMAIN v : v[i].case_id = v[j].case_id => i = j
            /\ ids \subseteq Known
            /\ \A i \in DOMAIN v : v[i].metrics = get_metrics(v[i].case_id)
            /\ \A i, j \in DOMAIN v :
                  i < j => LessEq(Influence(v[j].metrics), Influence(v[i].metrics))
            /\ \A c \in Known \ ids : \A i \in DOMAIN v :
                  LessEq(infl(c), Influence(v[i].metrics))

\* two of three cases are returned, the first of greater influence than the
\* second and the second of greater influence than the case left out
C10_Witness ==
    /\ ret.op = "find_influential_cases"
    /\ ret.limit = 2
    /\ Len(ret.value) = 2
    /\ Cardinality(Known) = 3
    /\ Less(Influence(ret.value[2].metrics), Influence(ret.value[1].metrics))
    /\ \A c \in Known \ {ret.value[1].case_id, ret.value[2].case_id} :
          Less(Influence(get_metrics(c)), Influence(ret.value[2].metrics))

\* the five query operations of CitationNetworkAnalyzer
Queries ==
    {"get_metrics", "find_influential_cases", "find_citation_chains",
     "get_co_citation_network", "get_network_stats"}

\* C29: no query operation (get_metrics, find_influential_cases,
\* find_citation_chains, get_co_citation_network, get_network_stats) changes
\* the forward map, the reverse map or the metadata map; a query about an id
\* that is not in the graph creates no node for it, so the set of cases that
\* total_cases counts and that find_influential_cases ranks is the same
\* before and after the query.
C29_Frame ==
    [][ret'.op \in Queries =>
          /\ graph' = graph
          /\ reverse_graph' = reverse_graph
          /\ case_metadata' = case_metadata
          /\ all_cases' = all_cases]_vars

\* a query about an id that is not in the graph has returned, on a network
\* that has cases and citations
C29_Witness ==
    /\ Edges # {}
    /\ \/ ret.op \in {"get_metrics", "get_co_citation_network"}
            /\ ret.case_id \notin all_cases
       \/ ret.op = "find_citation_chains" /\ ret.max_depth >= 1
            /\ ret.start_case \notin all_cases
            /\ ret.start_case # ret.end_case

\* C30: in every state reached by add_case calls, empty cited lists and
\* self-citations included, no score computation divides by zero: when a case
\* has a citer or cites a case, the reverse map is not empty and the maximum
\* in-degree that serves as denominator is at least 1, and every case that
\* cites at least one case has a hub score greater than 0.
C30_NoZeroDivision ==
    \A c \in ScenarioIds :
        /\ ~IsError(_calculate_authority_score(c))
        /\ ~IsError(_calculate_hub_score(c))
        /\ (Citers(c) # {} \/ Cited(c) # {}) =>
              /\ DOMAIN reverse_graph # {}
              /\ max_citations >= 1
        /\ Cited(c) # {} =>
              /\ max_possible(DictGet(graph, c)) >= 1
              /\ Less(Zero, _calculate_hub_score(c))

\* the metrics of a case that cites itself, in a network that also has a
\* case added with an empty cited list
C30_Witness ==
    /\ ret.op = "get_metrics"
    /\ ret.case_id \in Cited(ret.case_id)
    /\ \E d \in called : passed[d] = {} /\ d \in DOMAIN graph
    /\ Less(Zero, ret.value.hub_score)

\* ======================================================================
\* src/kite/utils/deduplication.py
\* ======================================================================

\* A str is the sequence of its characters. A CaseData is the record of the
\* four fields the deduplicator reads; None and "" are both falsy and the
\* code only tests an optional field for truth before it reads it, so an
\* absent field is the empty str.

Empty == <<>>

\* string.ascii_uppercase, string.ascii_lowercase
ascii_uppercase ==
    <<"A", "B", "C", "D", "E", "F", "G", "H", "I", "J", "K", "L", "M",
      "N", "O", "P", "Q", "R", "S", "T", "U", "V", "W", "X", "Y", "Z">>
ascii_lowercase ==
    <<"a", "b", "c", "d", "e", "f", "g", "h", "i", "j", "k", "l", "m",
      "n", "o", "p", "q", "r", "s", "t", "u", "v", "w", "x", "y", "z">>

\* a character left as it is
LowerIdentity(ch) == ch

\* str.lower() on one character
LowerChar(ch) ==
    IF \E i \in DOMAIN ascii_uppercase : ascii_uppercase[i] = ch
    THEN ascii_lowercase[CHOOSE i \in DOMAIN ascii_uppercase : ascii_uppercase[i] = ch]
    ELSE ch

\* str.lower()
lower(text) == [i \in DOMAIN text |-> LowerChar(text[i])]

\* ---------------------------------------------------- calculate_similarity

\* the length of the run of equal characters that starts at a[i] and b[j] and
\* stays inside a[..ahi) and b[..bhi)
RECURSIVE RunLength(_, _, _, _, _, _)
RunLength(a, b, i, j, ahi, bhi) ==
    IF i < ahi /\ j < bhi /\ a[i] = b[j]
    THEN 1 + RunLength(a, b, i + 1, j + 1, ahi, bhi)
    ELSE 0

\* SequenceMatcher.find_longest_match: the longest block common to a[alo..ahi)
\* and b[blo..bhi); of the longest, the one that starts earliest in a, and of
\* those the one that starts earliest in b. size = 0 when nothing matches.
find_longest_match(a, b, alo, ahi, blo, bhi) ==
    LET blocks == {<<i, j>> \in (alo..(ahi - 1)) \X (blo..(bhi - 1)) : a[i] = b[j]}
        size(m) == RunLength(a, b, m[1], m[2], ahi, bhi)
        Better(m, n) ==
            \/ size(m) > size(n)
            \/ size(m) = size(n) /\ m[1] < n[1]
            \/ size(m) = size(n) /\ m[1] = n[1] /\ m[2] <= n[2]
    IN  IF blocks = {} THEN [a |-> alo, b |-> blo, size |-> 0]
        ELSE LET best == CHOOSE m \in blocks : \A n \in blocks : Better(m, n)
             IN  [a |-> best[1], b |-> best[2], size |-> size(best)]

\* SequenceMatcher.get_matching_blocks, summed: the number of matched
\* characters, the longest block first and then what lies left and right of it
RECURSIVE matches(_, _, _, _, _, _)
matches(a, b, alo, ahi, blo, bhi) ==
    LET m == find_longest_match(a, b, alo, ahi, blo, bhi)
    IN  IF m.size = 0 THEN 0
        ELSE m.size
             + matches(a, b, alo, m.a, blo, m.b)
             + matches(a, b, m.a + m.size, ahi, m.b + m.size, bhi)

\* SequenceMatcher(None, a, b).ratio(): 2.0 * matches / (len(a) + len(b)),
\* and 1.0 for two empty sequences
ratio(a, b) ==
    IF Len(a) + Len(b) = 0 THEN One
    ELSE Div(2 * matches(a, b, 1, Len(a) + 1, 1, Len(b) + 1), Len(a) + Len(b))

\* the similarity of the texts as they are, without lowercasing
calculate_similarity_cased(text1, text2) == ratio(text1, text2)

calculate_similarity(text1, text2) == ratio(lower(text1), lower(text2))

\* --------------------------------------------------- find_duplicates_in_batch

\* name_sim >= 0.95
HighSimilarity == [num |-> 19, den |-> 20]

\* case1.court == case2.court, whether or not the courts are present
same_court_unguarded(case1, case2) == case1.court = case2.court

\* case1.court == case2.court if case1.court and case2.court else False
same_court(case1, case2) ==
    IF case1.court # Empty /\ case2.court # Empty
    THEN case1.court = case2.court
    ELSE FALSE

\* case1.date == case2.date if case1.date and case2.date else False
same_date(case1, case2) ==
    IF case1.date # Empty /\ case2.date # Empty
    THEN case1.date = case2.date
    ELSE FALSE

\* the deduplicator a method is called on: self.similarity_threshold (the
\* seen-sets are not read by the batch methods)
self == [similarity_threshold |-> similarity_threshold]

\* what one pass of the inner loop body appends to duplicates for cases[i],
\* cases[j] (indices as the code counts them, from 0)
compare(this, cases, i, j) ==
    LET case1 == cases[i + 1]
        case2 == cases[j + 1]
        name_sim == calculate_similarity(case1.case_name, case2.case_name)
    IN  IF case1.case_id # Empty /\ case2.case_id # Empty
           /\ case1.case_id = case2.case_id
        THEN <<[i |-> i, j |-> j, score |-> One]>>
        ELSE IF LessEq(this.similarity_threshold, name_sim)
                /\ (\/ same_court(case1, case2)
                    \/ same_date(case1, case2)
                    \/ LessEq(HighSimilarity, name_sim))
        THEN <<[i |-> i, j |-> j, score |-> name_sim]>>
        ELSE <<>>

\* for j in range(i + 1, len(cases))
RECURSIVE inner_loop(_, _, _, _)
inner_loop(this, cases, i, j) ==
    IF j >= Len(cases) THEN <<>>
    ELSE compare(this, cases, i, j) \o inner_loop(this, cases, i, j + 1)

\* for i in range(len(cases))
RECURSIVE outer_loop(_, _, _)
outer_loop(this, cases, i) ==
    IF i >= Len(cases) THEN <<>>
    ELSE inner_loop(this, cases, i, i + 1) \o outer_loop(this, cases, i + 1)

find_duplicates_in_batch(this, cases) == outer_loop(this, cases, 0)

\* ----------------------------------------------------------- deduplicate_batch

\* the indices to remove when the higher index of every pair is dropped
to_remove_first(duplicate_pairs, keep) ==
    {duplicate_pairs[p].j : p \in DOMAIN duplicate_pairs}

\* the indices to remove when the lower index of every pair is dropped
to_remove_last(duplicate_pairs, keep) ==
    {duplicate_pairs[p].i : p \in DOMAIN duplicate_pairs}

\* to_remove after the loop over duplicate_pairs
to_remove(duplicate_pairs, keep) ==
    IF keep = "first"
    THEN {duplicate_pairs[p].j : p \in DOMAIN duplicate_pairs}
    ELSE {duplicate_pairs[p].i : p \in DOMAIN duplicate_pairs}

\* [case for idx, case in enumerate(cases) if idx not in removed]
RECURSIVE unique_cases(_, _, _)
unique_cases(cases, removed, idx) ==
    IF idx >= Len(cases) THEN <<>>
    ELSE (IF idx \in removed THEN <<>> ELSE <<cases[idx + 1]>>)
         \o unique_cases(cases, removed, idx + 1)

deduplicate_batch(this, cases, keep) ==
    IF cases = <<>> THEN <<>>
    ELSE unique_cases(cases,
                      to_remove(find_duplicates_in_batch(this, cases), keep), 0)

\* deduplicator = CaseDeduplicator(similarity_threshold=threshold)
\* return deduplicator.deduplicate_batch(cases, keep=keep)
deduplicate_cases(cases, threshold, keep) ==
    deduplicate_batch([similarity_threshold |-> threshold], cases, keep)

\* ------------------------------------------------- specification: batches

MaxBatch == 3

Thresholds == {DefaultThreshold, [num |-> 1, den |-> 2]}

Keeps == {"first", "last", "newest"}

BatchNames ==
    {<<"a", "b", "c">>, <<"a", "b", "c", "d">>, <<"b", "c", "d">>,
     <<"A", "B", "C">>}

\* every combination of the four fields, for batches of two
AllCases ==
    [case_id : {Empty, <<"x">>, <<"y">>},
     case_name : BatchNames,
     court : {Empty, <<"c">>, <<"k">>},
     date : {Empty, <<"d">>, <<"e">>}]

CaseOf(id, name, court, date) ==
    [case_id |-> id, case_name |-> name, court |-> court, date |-> date]

\* the cases of the longer batches
BatchCases ==
    {CaseOf(Empty, <<"a", "b", "c">>, <<"c">>, Empty),
     CaseOf(<<"x">>, <<"a", "b", "c", "d">>, <<"c">>, Empty),
     CaseOf(Empty, <<"b", "c", "d">>, <<"c">>, Empty),
     CaseOf(<<"x">>, <<"b", "c", "d">>, Empty, <<"d">>),
     CaseOf(Empty, <<"b", "c", "d">>, <<"k">>, <<"e">>),
     CaseOf(Empty, <<"A", "B", "C">>, Empty, Empty)}

Batches == SeqsUpTo(BatchCases, MaxBatch) \cup [1..2 -> AllCases]

BatchInit ==
    /\ NetworkInit
    /\ \E threshold \in Thresholds : DeduplicatorInit(threshold)
    /\ ret = NoResult

FindDuplicatesInBatchOver(batches) ==
    /\ Idle
    /\ \E cases \in batches :
          ret' = [op |-> "find_duplicates_in_batch", cases |-> cases,
                  value |-> find_duplicates_in_batch(self, cases)]
    /\ UNCHANGED frame

DeduplicateBatchOver(batches) ==
    /\ Idle
    /\ \E cases \in batches, keep \in Keeps :
          ret' = [op |-> "deduplicate_batch", cases |-> cases, keep |-> keep,
                  value |-> deduplicate_batch(self, cases, keep)]
    /\ UNCHANGED frame

DeduplicateCases ==
    /\ Idle
    /\ \E cases \in Batches, threshold \in Thresholds, keep \in Keeps :
          ret' = [op |-> "deduplicate_cases", cases |-> cases,
                  similarity_threshold |-> threshold, keep |-> keep,
                  value |-> deduplicate_cases(cases, threshold, keep)]
    /\ UNCHANGED frame

FindDuplicatesInBatch == FindDuplicatesInBatchOver(Batches)
DeduplicateBatch == DeduplicateBatchOver(Batches)

BatchNext ==
    \/ FindDuplicatesInBatch
    \/ DeduplicateBatch
    \/ DeduplicateCases
    \/ DropResult

BatchSpec == BatchInit /\ [][BatchNext]_vars

\* ----------------------------------------------- reference notions: batches

\* the similarity of the names of two cases
NameSimilarity(c1, c2) == calculate_similarity(c1.case_name, c2.case_name)

\* both case_ids are non-empty and equal
IdMatch(c1, c2) ==
    c1.case_id # Empty /\ c2.case_id # Empty /\ c1.case_id = c2.case_id

\* both courts are present and equal, or both dates are present and equal
CourtOrDateMatch(c1, c2) ==
    \/ c1.court # Empty /\ c2.court # Empty /\ c1.court = c2.court
    \/ c1.date # Empty /\ c2.date # Empty /\ c1.date = c2.date

\* the names are similar enough under threshold t
NameMatch(t, c1, c2) ==
    /\ LessEq(t, NameSimilarity(c1, c2))
    /\ CourtOrDateMatch(c1, c2) \/ LessEq(HighSimilarity, NameSimilarity(c1, c2))

\* c1 and c2, in this order in a batch, are a flagged pair under threshold t
Flagged(t, c1, c2) == IdMatch(c1, c2) \/ NameMatch(t, c1, c2)

\* the index pairs (i, j), i < j, counted from 0, flagged in a batch
FlaggedPairs(t, cases) ==
    {p \in (0..(Len(cases) - 1)) \X (0..(Len(cases) - 1)) :
        p[1] < p[2] /\ Flagged(t, cases[p[1] + 1], cases[p[2] + 1])}

\* the p-th smallest element of a set of integers
Nth(S, p) == CHOOSE x \in S : Cardinality({y \in S : y < x}) = p - 1

\* the cases of a batch at the indices of S, in their original order
Restrict(cases, S) == [p \in 1..Cardinality(S) |-> cases[Nth(S, p) + 1]]

\* the threshold of the deduplicator that served the call recorded in ret
ThresholdOf(r) ==
    IF r.op = "deduplicate_cases" THEN r.similarity_threshold
    ELSE similarity_threshold

\* ret records deduplicate_batch(cases, keep="first") on three cases of which
\* (0,1) and (1,2) are flagged by the similarity of their names and (0,2) is
\* not similar enough
C11_Scenario ==
    /\ ret.op = "deduplicate_batch"
    /\ ret.keep = "first"
    /\ Len(ret.cases) = 3
    /\ FlaggedPairs(similarity_threshold, ret.cases) = {<<0, 1>>, <<1, 2>>}
    /\ NameMatch(similarity_threshold, ret.cases[1], ret.cases[2])
    /\ NameMatch(similarity_threshold, ret.cases[2], ret.cases[3])
    /\ Less(NameSimilarity(ret.cases[1], ret.cases[3]), similarity_threshold)

\* C11 as stated: in the three-case scenario keep="first" removes only case 1
\* and returns cases 0 and 2
C11_Original ==
    C11_Scenario => ret.value = <<ret.cases[1], ret.cases[3]>>

\* C11: in the three-case scenario ((0,1) and (1,2) flagged, (0,2) not)
\* deduplicate_batch with keep="first" removes cases 1 and 2, the higher index
\* of each flagged pair, and returns case 0 alone
C11_ChainFirst ==
    C11_Scenario => ret.value = <<ret.cases[1]>>

C11_Witness ==
    /\ C11_Scenario
    /\ similarity_threshold = DefaultThreshold
    /\ Len(ret.value) = 1

\* C12: deduplicate_batch(cases, keep) returns, in their original order,
\* exactly the cases whose index is not the higher index of a flagged pair
\* (keep = "first") or not the lower index of one (any other keep); no two
\* returned cases form a flagged pair, and deduplicating the result again
\* with the same threshold and keep returns it unchanged
C12_Deduplicate ==
    ret.op \in {"deduplicate_batch", "deduplicate_cases"} =>
        LET t == ThresholdOf(ret)
            n == Len(ret.cases)
            pairs == FlaggedPairs(t, ret.cases)
            dropped == IF ret.keep = "first" THEN {p[2] : p \in pairs}
                       ELSE {p[1] : p \in pairs}
        IN  /\ ret.value = Restrict(ret.cases, (0..(n - 1)) \ dropped)
            /\ FlaggedPairs(t, ret.value) = {}
            /\ deduplicate_cases(ret.value, t, ret.keep) = ret.value

C12_Witness ==
    /\ ret.op = "deduplicate_batch"
    /\ ret.keep = "newest"
    /\ Len(ret.cases) = 3
    /\ Len(ret.value) = 2
    /\ ret.value = <<ret.cases[2], ret.cases[3]>>
    /\ C12_Deduplicate

\* C13: find_duplicates_in_batch returns exactly the index pairs (i, j),
\* i < j, each at most once, whose case_ids are both non-empty and equal
\* (score 1.0) or whose name similarity s reaches the threshold while the
\* courts are present and equal, or the dates are, or s >= 0.95 (score s)
C13_FindDuplicates ==
    ret.op = "find_duplicates_in_batch" =>
        LET v == ret.value
            cases == ret.cases
        IN  /\ \A p \in DOMAIN v : v[p].i < v[p].j
            /\ \A p, q \in DOMAIN v :
                  v[p].i = v[q].i /\ v[p].j = v[q].j => p = q
            /\ {<<v[p].i, v[p].j>> : p \in DOMAIN v}
                  = FlaggedPairs(similarity_threshold, cases)
            /\ \A p \in DOMAIN v :
                  v[p].score = IF IdMatch(cases[v[p].i + 1], cases[v[p].j + 1])
                               THEN One
                               ELSE NameSimilarity(cases[v[p].i + 1],
                                                   cases[v[p].j + 1])

\* a batch with a pair flagged by its ids alone, a pair flagged by its names
\* and courts with a similarity below 0.95, and a pair that is not flagged
C13_Witness ==
    /\ ret.op = "find_duplicates_in_batch"
    /\ Len(ret.cases) = 3
    /\ Len(ret.value) = 2
    /\ \E p, q \in DOMAIN ret.value :
          /\ ret.value[p].score = One
          /\ ~NameMatch(similarity_threshold, ret.cases[ret.value[p].i + 1],
                        ret.cases[ret.value[p].j + 1])
          /\ Less(ret.value[q].score, HighSimilarity)
    /\ C13_FindDuplicates

\* ------------------------------------------------------ normalize_case_name

\* for char in [',', '.', ';', ':', '"', "'", '(', ')', '[', ']']
Punctuation == {",", ".", ";", ":", "\"", "'", "(", ")", "[", "]"}

\* the characters str.split() splits on
Whitespace == {" ", "\t", "\n"}

\* str.split() from position i on: the next word goes from the first
\* character that is not whitespace to the last before whitespace or the end
RECURSIVE split_from(_, _)
split_from(text, i) ==
    LET rest == {s \in i..Len(text) : text[s] \notin Whitespace}
    IN  IF rest = {} THEN <<>>
        ELSE LET start == CHOOSE s \in rest : \A t \in rest : s <= t
                 end == CHOOSE e \in start..Len(text) :
                            /\ e = Len(text) \/ text[e + 1] \in Whitespace
                            /\ \A k \in start..e : text[k] \notin Whitespace
             IN  <<SubSeq(text, start, end)>> \o split_from(text, end + 1)

split(text) == split_from(text, 1)

\* ' '.join(words)
RECURSIVE join(_)
join(words) ==
    IF words = <<>> THEN <<>>
    ELSE IF Len(words) = 1 THEN words[1]
    ELSE words[1] \o <<" ">> \o join(Tail(words))

\* stopwords = ['v', 'vs', 'versus', 'et', 'al', 'and', 'the', 'in', 're']
stopwords ==
    {<<"v">>, <<"v", "s">>, <<"v", "e", "r", "s", "u", "s">>, <<"e", "t">>,
     <<"a", "l">>, <<"a", "n", "d">>, <<"t", "h", "e">>, <<"i", "n">>,
     <<"r", "e">>}

\* the name lowercased with its whitespace normalized, punctuation and
\* stopwords kept
normalize_whitespace_only(case_name) == join(split(lower(case_name)))

normalize_case_name(case_name) ==
    LET lowered == lower(case_name)
        stripped == SelectSeq(lowered, LAMBDA ch : ch \notin Punctuation)
        name == join(split(stripped))
        words == SelectSeq(split(name), LAMBDA w : w \notin stopwords)
    IN  join(words)

\* ------------------------------------------------------- compute_case_hash

\* hashlib.sha256(key.encode('utf-8')).hexdigest()[:16]: a value determined
\* by the key; two different keys are given different values
sha256_16(key) == [sha256 |-> key]

\* the key with the court normalized like the name
compute_case_hash_court_normalized(case_name, court, date) ==
    sha256_16(normalize_case_name(case_name) \o <<"|">>
              \o join(split(lower(court))) \o <<"|">> \o date)

compute_case_hash(case_name, court, date) ==
    LET name_norm == normalize_case_name(case_name)
        court_norm == IF court # Empty THEN lower(court) ELSE <<>>
        date_norm == IF date # Empty THEN date ELSE <<>>
        key == name_norm \o <<"|">> \o court_norm \o <<"|">> \o date_norm
    IN  sha256_16(key)

\* -------------------------------------------------------- streaming checks

\* a seen-set left as it is
seen_unchanged(seen, x) == seen

\* self._seen_hashes.add(case_hash), self._seen_ids.add(case_id)
seen_add(seen, x) == seen \cup {x}

\* a seen-set that is not cleared
seen_kept(seen) == seen

\* self._seen_hashes.clear(), self._seen_ids.clear()
seen_clear(seen) == {}

is_duplicate_by_hash(case_name, court, date) ==
    LET case_hash == compute_case_hash(case_name, court, date)
    IN  /\ asked_hashes' = asked_hashes \cup {case_hash}
        /\ IF case_hash \in _seen_hashes
           THEN /\ ret' = [op |-> "is_duplicate_by_hash", case_name |-> case_name,
                           court |-> court, date |-> date, value |-> TRUE]
                /\ UNCHANGED _seen_hashes
           ELSE /\ _seen_hashes' = seen_add(_seen_hashes, case_hash)
                /\ ret' = [op |-> "is_duplicate_by_hash", case_name |-> case_name,
                           court |-> court, date |-> date, value |-> FALSE]
        /\ UNCHANGED <<similarity_threshold, _seen_ids, asked_ids>>

is_duplicate_by_id(case_id) ==
    /\ asked_ids' = asked_ids \cup {case_id}
    /\ IF case_id \in _seen_ids
       THEN /\ ret' = [op |-> "is_duplicate_by_id", case_id |-> case_id,
                       value |-> TRUE]
            /\ UNCHANGED _seen_ids
       ELSE /\ _seen_ids' = seen_add(_seen_ids, case_id)
            /\ ret' = [op |-> "is_duplicate_by_id", case_id |-> case_id,
                       value |-> FALSE]
    /\ UNCHANGED <<similarity_threshold, _seen_hashes, asked_hashes>>

reset ==
    /\ _seen_hashes' = seen_clear(_seen_hashes)
    /\ _seen_ids' = seen_clear(_seen_ids)
    /\ asked_hashes' = {}
    /\ asked_ids' = {}
    /\ ret' = [op |-> "reset"]
    /\ UNCHANGED similarity_threshold

\* ------------------------------------------------ specification: streaming

StreamIds == {Empty, <<"x">>, <<"y">>}

StreamNames ==
    {<<"s", " ", "v">>, <<"S">>, <<"s", ".">>, <<"t">>}

StreamCourts == {Empty, <<"c">>, <<"C">>}

StreamDates == {Empty, <<"d">>}

\* the batches of the batch calls made between streaming checks
StreamBatches ==
    SeqsUpTo({CaseOf(Empty, <<"a", "b", "c">>, <<"c">>, Empty),
              CaseOf(<<"x">>, <<"a", "b", "c", "d">>, <<"c">>, Empty)}, 2)

IsDuplicateByHash ==
    /\ Idle
    /\ \E case_name \in StreamNames, court \in StreamCourts, date \in StreamDates :
          is_duplicate_by_hash(case_name, court, date)
    /\ UNCHANGED network

IsDuplicateById ==
    /\ Idle
    /\ \E case_id \in StreamIds : is_duplicate_by_id(case_id)
    /\ UNCHANGED network

Reset ==
    /\ Idle
    /\ reset
    /\ UNCHANGED network

StreamFindDuplicatesInBatch == FindDuplicatesInBatchOver(StreamBatches)
StreamDeduplicateBatch == DeduplicateBatchOver(StreamBatches)

StreamNext ==
    \/ IsDuplicateByHash
    \/ IsDuplicateById
    \/ Reset
    \/ StreamFindDuplicatesInBatch
    \/ StreamDeduplicateBatch
    \/ DropResult

StreamSpec == Init /\ [][StreamNext]_vars

\* C14: is_duplicate_by_id(x) returns True exactly when it was called with x
\* before, since creation or the last reset; is_duplicate_by_hash returns True
\* exactly when an earlier call since then had the same hash; every other
\* call, streaming or batch, leaves both answers as they were; reset empties
\* both seen-sets
C14_Streaming ==
    [][/\ ret'.op = "is_duplicate_by_id" =>
             ret'.value = (ret'.case_id \in asked_ids)
       /\ ret'.op = "is_duplicate_by_hash" =>
             ret'.value = (compute_case_hash(ret'.case_name, ret'.court, ret'.date)
                             \in asked_hashes)
       /\ ret'.op \notin {"is_duplicate_by_id", "reset"} =>
             \A x \in StreamIds : (x \in _seen_ids') = (x \in _seen_ids)
       /\ ret'.op \notin {"is_duplicate_by_hash", "reset"} =>
             _seen_hashes' = _seen_hashes
       /\ ret'.op = "reset" => _seen_hashes' = {} /\ _seen_ids' = {}]_vars

\* a hash check answers True for arguments that differ from those of the
\* earlier call, after id checks, and an id check answered False before
C14_Witness ==
    /\ ret.op = "is_duplicate_by_hash"
    /\ ret.value = TRUE
    /\ ret.case_name = <<"S">>
    /\ ret.court = <<"C">>
    /\ Cardinality(_seen_hashes) = 1
    /\ _seen_ids = {<<"x">>}

\* -------------------------------------------------- specification: hashing

MaxName == 3

NameAlphabet == {"s", "V", " ", "."}

HashNames == SeqsUpTo(NameAlphabet, MaxName)

HashCourts == {Empty, <<"c">>, <<"C", " ", "k">>}

HashDates == {Empty, <<"d">>}

\* s with the sequence x inserted after its first p characters
InsertAt(s, p, x) == SubSeq(s, 1, p) \o x \o SubSeq(s, p + 1, Len(s))

\* the two cases of one letter
Letters == {{"s", "S"}, {"v", "V"}, {"c", "C"}, {"k", "K"}}

\* s with the case of one letter changed
CaseEdits(s) ==
    {t \in {[s EXCEPT ![p[1]] = p[2]] : p \in (DOMAIN s) \X (UNION Letters)} :
        \E i \in DOMAIN s : t[i] # s[i] /\ {t[i], s[i]} \in Letters}

\* s with more whitespace where it has whitespace
WhitespaceEdits(s) ==
    {InsertAt(s, p, <<" ">>) : p \in {q \in 0..Len(s) :
        \/ q >= 1 /\ s[q] \in Whitespace
        \/ q < Len(s) /\ s[q + 1] \in Whitespace}}

\* s with one character of the stripped punctuation added
PunctuationEdits(s) ==
    {InsertAt(s, p[1], <<p[2]>>) : p \in (0..Len(s)) \X Punctuation}

\* s with one stopword added as a word of its own
StopwordEdits(s) ==
    {InsertAt(s, p[1], p[2] \o <<" ">>) :
        p \in {q \in (0..Len(s)) \X stopwords :
                  q[1] = 0 \/ s[q[1]] \in Whitespace}}
    \cup
    {InsertAt(s, p[1], <<" ">> \o p[2]) :
        p \in {q \in (0..Len(s)) \X stopwords :
                  q[1] = Len(s) \/ s[q[1] + 1] \in Whitespace}}

NameEdits(s) ==
    CaseEdits(s) \cup WhitespaceEdits(s) \cup PunctuationEdits(s)
    \cup StopwordEdits(s)

\* the arguments compared with args: one field of args edited, or replaced
Variants(args) ==
    {[args EXCEPT !.case_name = n] :
        n \in NameEdits(args.case_name) \cup {<<"s">>, <<"v">>}}
    \cup {[args EXCEPT !.court = c] :
        c \in CaseEdits(args.court) \cup WhitespaceEdits(args.court)
              \cup HashCourts}
    \cup {[args EXCEPT !.date = d] : d \in HashDates}

\* two calls of compute_case_hash
ComputeCaseHash ==
    /\ Idle
    /\ \E first \in [case_name : HashNames, court : HashCourts, date : HashDates] :
          \E second \in Variants(first) :
              ret' = [op |-> "compute_case_hash", first |-> first,
                      second |-> second,
                      value |-> <<compute_case_hash(first.case_name, first.court,
                                                    first.date),
                                  compute_case_hash(second.case_name, second.court,
                                                    second.date)>>]
    /\ UNCHANGED frame

HashNext ==
    \/ ComputeCaseHash
    \/ DropResult

HashSpec == Init /\ [][HashNext]_vars

\* C15 as stated: the hash does not change with the letter case or the amount
\* of whitespace of the name or of the court, nor with stripped punctuation
\* or stopwords added to the name
C15_Original ==
    ret.op = "compute_case_hash" =>
      ((/\ ret.second.date = ret.first.date
         /\ \/ /\ ret.second.court = ret.first.court
               /\ ret.second.case_name \in NameEdits(ret.first.case_name)
            \/ /\ ret.second.case_name = ret.first.case_name
               /\ ret.second.court \in CaseEdits(ret.first.court)
                                       \cup WhitespaceEdits(ret.first.court))
        => ret.value[1] = ret.value[2])

\* C15: the hash does not change with the letter case of the name or of the
\* court, with the amount of whitespace of the name, or with stripped
\* punctuation or stopwords added to the name
C15_HashNormalized ==
    ret.op = "compute_case_hash" =>
      ((/\ ret.second.date = ret.first.date
         /\ \/ /\ ret.second.court = ret.first.court
               /\ ret.second.case_name \in NameEdits(ret.first.case_name)
            \/ /\ ret.second.case_name = ret.first.case_name
               /\ ret.second.court \in CaseEdits(ret.first.court))
        => ret.value[1] = ret.value[2])

\* a name with a stopword added to a name that normalizes to something, in a
\* court with capitals and whitespace
C15_Witness ==
    /\ ret.op = "compute_case_hash"
    /\ ret.second.case_name \in StopwordEdits(ret.first.case_name)
    /\ ret.second.court = ret.first.court
    /\ ret.first.court = <<"C", " ", "k">>
    /\ ret.second.date = ret.first.date
    /\ normalize_case_name(ret.first.case_name) # <<>>
    /\ ret.value[1] = ret.value[2]

\* ======================================================================
\* src/kite/utils/citation_extractor.py
\* src/archive/v2-python/kite/utils/citation_patterns.py
\* ======================================================================

\* A text is a str of words separated by whitespace. A compiled regular
\* expression is modelled by the citations it matches in such a text: its
\* `pattern` lists the forms of a citation, each form the sequence of the
\* classes of words that the pieces of the expression separated by \s+ match,
\* in the order the expression tries them; `boundary` tells whether the
\* expression starts and ends with \b. The first piece may match the end of
\* a word and the last piece the start of one; the pieces between match
\* whole words. A reporter written with an inner space (F. Supp., S. Ct.) is
\* not among the texts considered.

Digit == {"0", "1", "2", "3", "4", "5", "6", "7", "8", "9"}

\* \d+
IsDigits(word) == word # <<>> /\ \A i \in DOMAIN word : word[i] \in Digit

\* [A-Z]+ under re.IGNORECASE
IsLetters(word) ==
    word # <<>> /\ \A i \in DOMAIN word : LowerChar(word[i]) \in Range(ascii_lowercase)

\* the parts of word between the occurrences of the character ch
RECURSIVE split_on_from(_, _, _, _, _)
split_on_from(word, ch, i, part, parts) ==
    IF i > Len(word) THEN Append(parts, part)
    ELSE IF word[i] = ch
    THEN split_on_from(word, ch, i + 1, <<>>, Append(parts, part))
    ELSE split_on_from(word, ch, i + 1, Append(part, word[i]), parts)

split_on(word, ch) == split_on_from(word, ch, 1, <<>>, <<>>)

\* the names of the pieces of the expressions
Classes ==
    {"digits", "year", "[year]", "(year)", "U.S.", "F.", "F.Supp.", "S.Ct.",
     "L.Ed.", "State", "S.C.R.", "F.C.R.", "letters2-5", "court",
     "division", "AC", "W.L.R.", "All", "E.R.", "C.L.R.", "letters3+",
     "ECLI", "Case", "C-", "I.C.J.", "Reports", "(year),", "ECHR",
     "year-roman"}

\* whether a word is matched by the piece of a regular expression named cls
word_matches(cls, word) ==
    CASE cls = "digits" -> IsDigits(word)
      [] cls = "year" -> IsDigits(word) /\ Len(word) = 4
      [] cls = "[year]" ->
           Len(word) = 6 /\ word[1] = "[" /\ word[6] = "]" /\ IsDigits(SubSeq(word, 2, 5))
      [] cls = "(year)" ->
           Len(word) = 6 /\ word[1] = "(" /\ word[6] = ")" /\ IsDigits(SubSeq(word, 2, 5))
      [] cls = "U.S." ->
           lower(word) \in
           {<<"u", ".", "s">>, <<"u", ".", "s", ".">>, <<"u", "s">>,
            <<"u", "s", ".">>}
      [] cls = "F." ->
           lower(word) \in
           {<<"f", ".">>, <<"f", ".", "2", "d">>, <<"f", ".", "3", "d">>,
            <<"f", ".", "4", "t", "h">>}
      [] cls = "F.Supp." ->
           lower(word) \in
           {<<"f", ".", "s", "u", "p", "p", ".">>,
            <<"f", ".", "s", "u", "p", "p", ".", "2", "d">>,
            <<"f", ".", "s", "u", "p", "p", ".", "3", "d">>}
      [] cls = "S.Ct." ->
           lower(word) \in
           {<<"s", ".", "c", "t">>, <<"s", ".", "c", "t", ".">>,
            <<"s", "c", "t">>, <<"s", "c", "t", ".">>}
      [] cls = "L.Ed." ->
           lower(word) \in
           {<<"l", ".", "e", "d">>, <<"l", ".", "e", "d", ".">>,
            <<"l", ".", "e", "d", ".", "2", "d">>,
            <<"l", ".", "e", "d", "2", "d">>, <<"l", "e", "d">>,
            <<"l", "e", "d", ".">>, <<"l", "e", "d", ".", "2", "d">>,
            <<"l", "e", "d", "2", "d">>}
      [] cls = "State" ->
           \E n \in 1..4, suffix \in {<<>>, <<"2", "d">>, <<"3", "d">>} :
            /\ Len(word) = n + 2 + Len(suffix)
            /\ word[1] \in Range(ascii_uppercase)
            /\ \A i \in 2..(n + 1) : word[i] \in Range(ascii_lowercase)
            /\ word[n + 2] = "."
            /\ SubSeq(word, n + 3, Len(word)) = suffix
      [] cls = "S.C.R." ->
           lower(word) \in
           {<<"s", ".", "c", ".", "r">>, <<"s", ".", "c", ".", "r", ".">>,
            <<"s", ".", "c", "r">>, <<"s", ".", "c", "r", ".">>,
            <<"s", "c", ".", "r">>, <<"s", "c", ".", "r", ".">>,
            <<"s", "c", "r">>, <<"s", "c", "r", ".">>}
      [] cls = "F.C.R." ->
           lower(word) \in
           {<<"f", ".", "c", ".", "r">>, <<"f", ".", "c", ".", "r", ".">>,
            <<"f", ".", "c", "r">>, <<"f", ".", "c", "r", ".">>,
            <<"f", "c", ".", "r">>, <<"f", "c", ".", "r", ".">>,
            <<"f", "c", "r">>, <<"f", "c", "r", ".">>}
      [] cls = "letters2-5" -> IsLetters(word) /\ Len(word) \in 2..5
      [] cls = "court" ->
           lower(word) \in
           {<<"u", "k", "s", "c">>, <<"u", "k", "h", "l">>,
            <<"e", "w", "c", "a">>, <<"e", "w", "h", "c">>,
            <<"u", "k", "u", "t">>, <<"u", "k", "f", "t", "t">>}
      [] cls = "division" ->
           lower(word) \in
           {<<"c", "i", "v">>, <<"c", "r", "i", "m">>,
            <<"a", "d", "m", "i", "n">>, <<"c", "h">>, <<"c", "o", "m", "m">>,
            <<"f", "a", "m">>, <<"q", "b">>, <<"p", "a", "t">>}
      [] cls = "AC" ->
           lower(word) \in
           {<<"a", "c">>}
      [] cls = "W.L.R." ->
           lower(word) \in
           {<<"w", ".", "l", ".", "r">>, <<"w", ".", "l", ".", "r", ".">>,
            <<"w", ".", "l", "r">>, <<"w", ".", "l", "r", ".">>,
            <<"w", "l", ".", "r">>, <<"w", "l", ".", "r", ".">>,
            <<"w", "l", "r">>, <<"w", "l", "r", ".">>}
      [] cls = "All" ->
           lower(word) \in
           {<<"a", "l", "l">>}
      [] cls = "E.R." ->
           lower(word) \in
           {<<"e", ".", "r">>, <<"e", ".", "r", ".">>, <<"e", "r">>,
            <<"e", "r", ".">>}
      [] cls = "C.L.R." ->
           lower(word) \in
           {<<"c", ".", "l", ".", "r">>, <<"c", ".", "l", ".", "r", ".">>,
            <<"c", ".", "l", "r">>, <<"c", ".", "l", "r", ".">>,
            <<"c", "l", ".", "r">>, <<"c", "l", ".", "r", ".">>,
            <<"c", "l", "r">>, <<"c", "l", "r", ".">>}
      [] cls = "letters3+" -> IsLetters(word) /\ Len(word) >= 3
      [] cls = "ECLI" ->
           LET parts == split_on(word, ":")
           IN  /\ Len(word) >= 14
               /\ lower(SubSeq(word, 1, 5)) = <<"e", "c", "l", "i", ":">>
               /\ Len(parts) = 5
               /\ IsLetters(parts[2]) /\ Len(parts[2]) = 2
               /\ IsLetters(parts[3])
               /\ IsDigits(parts[4]) /\ Len(parts[4]) = 4
               /\ IsDigits(parts[5])
      [] cls = "Case" ->
           lower(word) \in
           {<<"c", "a", "s", "e">>}
      [] cls = "C-" ->
           LET parts == split_on(SubSeq(word, 3, Len(word)), "/")
           IN  /\ Len(word) >= 3
               /\ lower(SubSeq(word, 1, 2)) = <<"c", "-">>
               /\ Len(parts) = 2
               /\ IsDigits(parts[1]) /\ IsDigits(parts[2])
      [] cls = "I.C.J." ->
           lower(word) \in
           {<<"i", ".", "c", ".", "j">>, <<"i", ".", "c", ".", "j", ".">>,
            <<"i", ".", "c", "j">>, <<"i", ".", "c", "j", ".">>,
            <<"i", "c", ".", "j">>, <<"i", "c", ".", "j", ".">>,
            <<"i", "c", "j">>, <<"i", "c", "j", ".">>}
      [] cls = "Reports" ->
           lower(word) \in
           {<<"r", "e", "p", "o", "r", "t", "s">>}
      [] cls = "(year)," ->
           \E open \in {<<>>, <<"(">>}, close \in {<<>>, <<")">>}, comma \in {<<>>, <<",">>} :
            \E year \in {SubSeq(word, Len(open) + 1, Len(open) + 4) : n \in {Len(word)} \ (0..(Len(open) + 3))} :
                /\ IsDigits(year)
                /\ word = open \o year \o close \o comma
      [] cls = "ECHR" ->
           lower(word) \in
           {<<"e", "c", "h", "r">>}
      [] cls = "year-roman" ->
           /\ Len(word) >= 6
           /\ IsDigits(SubSeq(word, 1, 4))
           /\ word[5] = "-"
           /\ \A i \in 6..Len(word) : LowerChar(word[i]) \in {"i", "v", "x"}
      [] OTHER -> FALSE

US_PATTERNS ==
    <<[name |-> "US Supreme Court Reporter",
       jurisdiction |-> "US",
       boundary |-> TRUE,
       pattern |-> <<<<"digits", "U.S.", "digits">>>>],
     [name |-> "Federal Reporter (F., F.2d, F.3d, F.4th)",
       jurisdiction |-> "US",
       boundary |-> TRUE,
       pattern |-> <<<<"digits", "F.", "digits">>>>],
     [name |-> "Federal Supplement (F.Supp., F.Supp.2d, F.Supp.3d)",
       jurisdiction |-> "US",
       boundary |-> TRUE,
       pattern |-> <<<<"digits", "F.Supp.", "digits">>>>],
     [name |-> "Supreme Court Reporter",
       jurisdiction |-> "US",
       boundary |-> TRUE,
       pattern |-> <<<<"digits", "S.Ct.", "digits">>>>],
     [name |-> "Lawyers Edition (L.Ed., L.Ed.2d)",
       jurisdiction |-> "US",
       boundary |-> TRUE,
       pattern |-> <<<<"digits", "L.Ed.", "digits">>>>],
     [name |-> "State Reporter",
       jurisdiction |-> "US",
       boundary |-> TRUE,
       pattern |-> <<<<"digits", "State", "digits">>>>]>>

CANADIAN_PATTERNS ==
    <<[name |-> "Supreme Court Reports (SCR)",
       jurisdiction |-> "Canada",
       boundary |-> FALSE,
       pattern |-> <<<<"[year]", "digits", "S.C.R.", "digits">>>>],
     [name |-> "Federal Court Reports",
       jurisdiction |-> "Canada",
       boundary |-> FALSE,
       pattern |-> <<<<"[year]", "digits", "F.C.R.", "digits">>>>],
     [name |-> "CanLII Citation",
       jurisdiction |-> "Canada",
       boundary |-> FALSE,
       pattern |-> <<<<"year", "letters2-5", "digits">>>>]>>

UK_PATTERNS ==
    <<[name |-> "Neutral Citation (UK)",
       jurisdiction |-> "UK",
       boundary |-> FALSE,
       pattern |-> <<<<"[year]", "court", "division", "digits">>, <<"[year]", "court", "digits">>>>],
     [name |-> "Appeal Cases (AC)",
       jurisdiction |-> "UK",
       boundary |-> FALSE,
       pattern |-> <<<<"[year]", "AC", "digits">>>>],
     [name |-> "Weekly Law Reports (WLR)",
       jurisdiction |-> "UK",
       boundary |-> FALSE,
       pattern |-> <<<<"[year]", "digits", "W.L.R.", "digits">>>>],
     [name |-> "All England Reports (All ER)",
       jurisdiction |-> "UK",
       boundary |-> FALSE,
       pattern |-> <<<<"[year]", "digits", "All", "E.R.", "digits">>>>]>>

AUSTRALIAN_PATTERNS ==
    <<[name |-> "Commonwealth Law Reports (CLR)",
       jurisdiction |-> "Australia",
       boundary |-> FALSE,
       pattern |-> <<<<"(year)", "digits", "C.L.R.", "digits">>>>],
     [name |-> "Federal Court Reports (FCR)",
       jurisdiction |-> "Australia",
       boundary |-> FALSE,
       pattern |-> <<<<"(year)", "digits", "F.C.R.", "digits">>>>],
     [name |-> "AustLII Medium Neutral Citation",
       jurisdiction |-> "Australia",
       boundary |-> FALSE,
       pattern |-> <<<<"[year]", "letters3+", "digits">>>>]>>

EU_PATTERNS ==
    <<[name |-> "ECLI Citation",
       jurisdiction |-> "EU",
       boundary |-> FALSE,
       pattern |-> <<<<"ECLI">>>>],
     [name |-> "EU Case Number",
       jurisdiction |-> "EU",
       boundary |-> FALSE,
       pattern |-> <<<<"Case", "C-">>>>]>>

INTERNATIONAL_PATTERNS ==
    <<[name |-> "ICJ Reports",
       jurisdiction |-> "International",
       boundary |-> FALSE,
       pattern |-> <<<<"I.C.J.", "Reports", "(year),", "digits">>>>],
     [name |-> "ECHR Citation",
       jurisdiction |-> "International",
       boundary |-> FALSE,
       pattern |-> <<<<"ECHR", "year-roman">>>>]>>

\* ALL_PATTERNS: the six lists concatenated
ALL_PATTERNS ==
    US_PATTERNS \o CANADIAN_PATTERNS \o UK_PATTERNS \o AUSTRALIAN_PATTERNS
    \o EU_PATTERNS \o INTERNATIONAL_PATTERNS

PATTERNS_BY_JURISDICTION ==
    [j \in {"US", "Canada", "UK", "Australia", "EU", "International"} |->
        CASE j = "US" -> US_PATTERNS
          [] j = "Canada" -> CANADIAN_PATTERNS
          [] j = "UK" -> UK_PATTERNS
          [] j = "Australia" -> AUSTRALIAN_PATTERNS
          [] j = "EU" -> EU_PATTERNS
          [] j = "International" -> INTERNATIONAL_PATTERNS]

\* PATTERNS_BY_JURISDICTION.get(jurisdiction, [])
get_patterns_for_jurisdiction(jurisdiction) ==
    IF jurisdiction \in DOMAIN PATTERNS_BY_JURISDICTION
    THEN PATTERNS_BY_JURISDICTION[jurisdiction]
    ELSE <<>>

\* -------------------------------------------------------------------- texts

MaxWords == 3

Vocabulary ==
    {<<"2", "0", "2", "0">>, <<"[", "2", "0", "2", "0", "]">>,
     <<"U", ".", "S", ".">>, <<"U", "K", "S", "C">>,
     <<"E", "C", "L", "I", ":", "E", "U", ":", "C", ":", "2", "0", "2", "0", ":", "1">>}

ScenarioText == <<"S", "e", "e", " ", "1", "2", "3", " ", "U", ".", "S", ".", " ", "4", "5", "6", " ", "a", "n", "d", " ", "1", "2", "3", " ", "U", ".", "S", ".", " ", "4", "5", "6", " ", "a", "g", "a", "i", "n", ".">>

\* texts of up to MaxWords words and texts with other words and other whitespace
Texts ==
    {join(ws) : ws \in SeqsUpTo(Vocabulary, MaxWords)}
    \cup {ScenarioText,
          <<"1", "2", "3", " ", " ", "U", ".", "S", ".", " ", "4", "5", "6", " ", "a", "n", "d", " ", "1", "2", "3", " ", "U", ".", "S", ".", " ", "4", "5", "6">>,
          <<"[", "2", "0", "2", "0", "]", " ", "U", "K", "S", "C", " ", "1", "2", "3", " ", "E", "C", "L", "I", ":", "E", "U", ":", "C", ":", "2", "0", "2", "0", ":", "1">>,
          <<" ", "(", "2", "0", "2", "0", ")", " ", "1", " ", "F", "C", "R", " ", "1", "2", " ", "[", "2", "0", "2", "0", "]", " ", "1", " ", "f", "c", "r", " ", "1", "2", " ">>}

\* ---------------------------------------------------------------- finditer

\* \w
IsWordChar(ch) == ch \in Digit \/ LowerChar(ch) \in Range(ascii_lowercase) \/ ch = "_"

\* \b between the characters i and i + 1 of a word that stands between
\* whitespace
IsBoundary(word, i) ==
    (i >= 1 /\ IsWordChar(word[i])) # (i < Len(word) /\ IsWordChar(word[i + 1]))

\* the characters of a word from which the piece cls matches on to the end
\* of the word, behind \b if b
suffix(cls, b, word) ==
    {k \in 1..Len(word) :
        /\ b => IsBoundary(word, k - 1)
        /\ word_matches(cls, SubSeq(word, k, Len(word)))}

\* the character of a word up to which the piece cls matches from the start
\* of the word, before \b if b: the last such, 0 if there is none
prefix(cls, b, word) ==
    LET upto == {e \in 1..Len(word) :
                    /\ b => IsBoundary(word, e)
                    /\ word_matches(cls, SubSeq(word, 1, e))}
    IN  IF upto = {} THEN 0 ELSE CHOOSE e \in upto : \A y \in upto : y <= e

\* from where to where inside a word the piece cls matches. ECLI, the one
\* expression of a single piece, begins with the literal ECLI: and so matches
\* only from where the word has it.
inner(cls, word) ==
    LET heads == IF cls # "ECLI" THEN 1..Len(word)
                 ELSE {k \in 1..(Len(word) - 4) :
                          /\ word[k] \in {"E", "e"}
                          /\ lower(SubSeq(word, k, k + 4)) = <<"e", "c", "l", "i", ":">>}
    IN  {p \in heads \X (1..Len(word)) :
            p[1] <= p[2] /\ word_matches(cls, SubSeq(word, p[1], p[2]))}

\* the words of a text with the offset (from 0) at which each starts
RECURSIVE words_from(_, _, _, _)
words_from(text, i, word, found) ==
    LET closed == IF word = <<>> THEN found
                  ELSE Append(found, [word |-> word, start |-> i - 1 - Len(word)])
    IN  IF i > Len(text) THEN closed
        ELSE IF text[i] \in Whitespace
        THEN words_from(text, i + 1, <<>>, closed)
        ELSE words_from(text, i + 1, Append(word, text[i]), found)

\* the words of a text, each with its offset
words(text) == words_from(text, 1, <<>>, <<>>)

\* the least and the greatest number of a set
least(S) == CHOOSE x \in S : \A y \in S : x <= y

greatest(S) == CHOOSE x \in S : \A y \in S : y <= x

\* the characters of the t-th word at which a form of the pattern can start
\* at the offset pos or after it
starts(pattern, form, tokens, t, pos) ==
    {k \in IF Len(form) = 1 THEN {p[1] : p \in inner(form[1], tokens[t].word)}
           ELSE suffix(form[1], pattern.boundary, tokens[t].word) :
        tokens[t].start + k - 1 >= pos}

\* the same if the words after the t-th fit the rest of the form, else none
starts_fitting(pattern, form, tokens, t, pos) ==
    IF /\ t + Len(form) - 1 <= Len(tokens)
       /\ \A k \in 2..(Len(form) - 1) : word_matches(form[k], tokens[t + k - 1].word)
       /\ Len(form) > 1 =>
              prefix(form[Len(form)], pattern.boundary, tokens[t + Len(form) - 1].word) > 0
    THEN starts(pattern, form, tokens, t, pos)
    ELSE {}

\* the match of the form that starts at the character `first` of the t-th word
match_of(pattern, form, tokens, t, first) ==
    [n |-> Len(form),
     start |-> tokens[t].start + first - 1,
     end |-> IF Len(form) = 1
             THEN tokens[t].start
                  + greatest({p[2] : p \in {q \in inner(form[1], tokens[t].word) :
                                               q[1] = first}})
             ELSE tokens[t + Len(form) - 1].start
                  + prefix(form[Len(form)], pattern.boundary,
                           tokens[t + Len(form) - 1].word)]

\* the match at the leftmost of the starts, of the first form that has it
match_first(pattern, tokens, t, found, first) ==
    match_of(pattern,
             pattern.pattern[least({f \in DOMAIN found : first \in found[f]})],
             tokens, t, first)

\* found[f]: the starts of the f-th form
match_among(pattern, tokens, t, found) ==
    IF \A f \in DOMAIN found : found[f] = {} THEN [n |-> 0]
    ELSE match_first(pattern, tokens, t, found,
                     least(UNION {found[f] : f \in DOMAIN found}))

\* the match of pattern that starts in the t-th word at the offset `pos` or
\* after it: the number n of words it spans (0 if there is no match) and the
\* offsets of its start and end. The expression is tried at the leftmost
\* start first, its alternatives in their order, its repetitions greedily.
match_at(pattern, tokens, t, pos) ==
    match_among(pattern, tokens, t,
                [f \in DOMAIN pattern.pattern |->
                    starts_fitting(pattern, pattern.pattern[f], tokens, t, pos)])

\* pattern.pattern.finditer(text) from the t-th word and the offset pos on:
\* the matches from left to right, none overlapping another, each with
\* match.group(0) and match.start(); m is the match that starts in the t-th
\* word
RECURSIVE finditer_from(_, _, _, _, _)
RECURSIVE finditer_after(_, _, _, _, _, _)
finditer_after(pattern, text, tokens, t, pos, m) ==
    IF m.n = 0 THEN finditer_from(pattern, text, tokens, t + 1, pos)
    ELSE <<[group0 |-> SubSeq(text, m.start + 1, m.end), start |-> m.start]>>
         \o finditer_from(pattern, text, tokens, t + m.n - 1, m.end)

finditer_from(pattern, text, tokens, t, pos) ==
    IF t > Len(tokens) THEN <<>>
    ELSE finditer_after(pattern, text, tokens, t, pos,
                        match_at(pattern, tokens, t, pos))

finditer(pattern, text, tokens) == finditer_from(pattern, text, tokens, 1, 0)

\* ------------------------------------------------------ _normalize_citation

\* str.strip()
RECURSIVE strip(_)
strip(text) ==
    IF text = <<>> THEN text
    ELSE IF Head(text) \in Whitespace THEN strip(Tail(text))
    ELSE IF text[Len(text)] \in Whitespace
    THEN strip(SubSeq(text, 1, Len(text) - 1))
    ELSE text

\* str.replace('  ', ' ')
RECURSIVE replace_double_space(_)
replace_double_space(text) ==
    IF Len(text) < 2 THEN text
    ELSE IF text[1] = " " /\ text[2] = " "
    THEN <<" ">> \o replace_double_space(SubSeq(text, 3, Len(text)))
    ELSE <<text[1]>> \o replace_double_space(Tail(text))

\* the citation text as it was matched
not_normalized(text, pattern) == text

_normalize_citation(text, pattern) ==
    replace_double_space(join(split(strip(text))))

\* ------------------------------------------------------------------ extract

\* the citations of one pattern: one Citation per match (confidence is always
\* the default 1.0 and is left out)
Citations(pattern, found) ==
    [m \in DOMAIN found |->
        [text |-> found[m].group0,
         normalized |-> _normalize_citation(found[m].group0, pattern),
         jurisdiction |-> pattern.jurisdiction,
         pattern_name |-> pattern.name,
         position |-> found[m].start]]

citations_of(pattern, text, tokens) ==
    Citations(pattern, finditer(pattern, text, tokens))

\* for pattern in self.patterns, from the p-th pattern on
RECURSIVE citations_from(_, _, _, _)
citations_from(patterns, text, tokens, p) ==
    IF p > Len(patterns) THEN <<>>
    ELSE citations_of(patterns[p], text, tokens)
         \o citations_from(patterns, text, tokens, p + 1)

\* the citations left in the order in which they were appended
unsorted(citations) == citations

\* citations.sort(key=lambda c: c.position): a stable sort
\* c put behind the k citations of `sorted` that are not right of it
insert_at(sorted, c, k) ==
    SubSeq(sorted, 1, k) \o <<c>> \o SubSeq(sorted, k + 1, Len(sorted))

insert(sorted, c) ==
    insert_at(sorted, c,
              Cardinality({i \in DOMAIN sorted : sorted[i].position <= c.position}))

RECURSIVE sort_by_position(_)
sort_by_position(citations) ==
    IF citations = <<>> THEN <<>>
    ELSE insert(sort_by_position(SubSeq(citations, 1, Len(citations) - 1)),
                citations[Len(citations)])

\* the loop of _deduplicate from the i-th citation on
RECURSIVE deduplicate_from(_, _, _, _)
deduplicate_from(citations, i, seen, unique) ==
    IF i > Len(citations) THEN unique
    ELSE IF citations[i].normalized \notin seen
    THEN deduplicate_from(citations, i + 1, seen \cup {citations[i].normalized},
                          Append(unique, citations[i]))
    ELSE deduplicate_from(citations, i + 1, seen, unique)

\* the first citation alone
first_only(citations) ==
    IF citations = <<>> THEN <<>> ELSE <<citations[1]>>

_deduplicate(citations) == deduplicate_from(citations, 1, {}, <<>>)

\* jurisdiction is None, or a str; None and "" are falsy
NoJurisdiction == "None"

\* every pattern, whatever the jurisdiction asked for
patterns_all(jurisdiction) == ALL_PATTERNS

\* the patterns of the jurisdiction asked for, without the fallback
patterns_no_fallback(jurisdiction) ==
    IF jurisdiction \notin {NoJurisdiction, ""}
    THEN get_patterns_for_jurisdiction(jurisdiction)
    ELSE ALL_PATTERNS

\* CitationExtractor.__init__: self.patterns
\* if not patterns: patterns = ALL_PATTERNS
all_if_none(patterns) == IF patterns = <<>> THEN ALL_PATTERNS ELSE patterns

patterns_for(jurisdiction) ==
    IF jurisdiction \notin {NoJurisdiction, ""}
    THEN all_if_none(get_patterns_for_jurisdiction(jurisdiction))
    ELSE ALL_PATTERNS

\* if deduplicate: citations = self._deduplicate(citations)
deduplicated_if(deduplicate, citations) ==
    IF deduplicate THEN _deduplicate(citations) ELSE citations

extract(patterns, text, deduplicate) ==
    deduplicated_if(deduplicate,
                    sort_by_position(citations_from(patterns, text, words(text), 1)))

\* extractor = CitationExtractor(jurisdiction=jurisdiction)
\* return extractor.extract(text, deduplicate=deduplicate)
extract_citations(text, jurisdiction, deduplicate) ==
    extract(patterns_for(jurisdiction), text, deduplicate)

\* ----------------------------------------------- specification: extraction

Jurisdictions ==
    {NoJurisdiction, "", "US", "Canada", "UK", "Australia", "EU",
     "International", "Mars"}

ExtractCitations ==
    /\ Idle
    /\ \E text \in Texts, jurisdiction \in Jurisdictions, deduplicate \in BOOLEAN :
          ret' = [op |-> "extract", text |-> text, jurisdiction |-> jurisdiction,
                  deduplicate |-> deduplicate,
                  value |-> extract_citations(text, jurisdiction, deduplicate)]
    /\ UNCHANGED frame

GetPatternsForJurisdiction ==
    /\ Idle
    /\ \E jurisdiction \in Jurisdictions \ {NoJurisdiction} :
          ret' = [op |-> "get_patterns_for_jurisdiction",
                  jurisdiction |-> jurisdiction,
                  value |-> get_patterns_for_jurisdiction(jurisdiction)]
    /\ UNCHANGED frame

ExtractNext ==
    \/ ExtractCitations
    \/ GetPatternsForJurisdiction
    \/ DropResult

ExtractSpec == Init /\ [][ExtractNext]_vars

\* --------------------------------------------- reference notions: extraction

\* the jurisdictions with at least one registered pattern
Registered == {"US", "Canada", "UK", "Australia", "EU", "International"}

\* the citations of a list
CitationsIn(citations) == {citations[i] : i \in DOMAIN citations}

\* the normalized forms of a list of citations
NormalizedForms(citations) == {citations[i].normalized : i \in DOMAIN citations}

\* the place of a pattern in the registry
RegistryIndex(pattern_name) ==
    CHOOSE p \in DOMAIN ALL_PATTERNS : ALL_PATTERNS[p].name = pattern_name

\* small is large with some of its elements left out
IsSubsequence(small, large) ==
    \E keep \in SUBSET DOMAIN large : small = Restrict(large, {i - 1 : i \in keep})

\* what the call recorded in ret returns when asked not to deduplicate
AllMatches == extract_citations(ret.text, ret.jurisdiction, FALSE)

\* C16: with a filter J that has at least one registered pattern, every
\* citation returned has jurisdiction J, with or without deduplication
C16_Filter ==
    ret.op = "extract" /\ ret.jurisdiction \in Registered =>
        \A i \in DOMAIN ret.value : ret.value[i].jurisdiction = ret.jurisdiction

\* a filtered extraction that leaves out a citation of another jurisdiction
C16_Witness ==
    /\ ret.op = "extract"
    /\ ret.jurisdiction = "Australia"
    /\ ~ret.deduplicate
    /\ ret.value # <<>>
    /\ \E c \in CitationsIn(extract_citations(ret.text, NoJurisdiction, FALSE)) :
          c.jurisdiction = "UK"
    /\ C16_Filter

\* C17: with deduplicate=True the result is sorted by non-decreasing
\* position, no two citations have the same normalized form, and the citation
\* kept for a normalized form is the match with the smallest position (of two
\* at the same position, the one of the earlier pattern of the registry);
\* "See 123 U.S. 456 and 123 U.S. 456 again." yields exactly one citation,
\* with normalized text "123 U.S. 456"
C17_Deduplicated ==
    ret.op = "extract" /\ ret.deduplicate =>
        /\ \A i, j \in DOMAIN ret.value :
              i < j => /\ ret.value[i].position <= ret.value[j].position
                       /\ ret.value[i].normalized # ret.value[j].normalized
        /\ \A m \in CitationsIn(AllMatches) : \A i \in DOMAIN ret.value :
              m.normalized = ret.value[i].normalized =>
                  \/ ret.value[i].position < m.position
                  \/ /\ ret.value[i].position = m.position
                     /\ RegistryIndex(ret.value[i].pattern_name)
                            <= RegistryIndex(m.pattern_name)
        /\ ret.text = ScenarioText /\ ret.jurisdiction = NoJurisdiction =>
              /\ Len(ret.value) = 1
              /\ ret.value[1].normalized = <<"1", "2", "3", " ", "U", ".", "S", ".", " ", "4", "5", "6">>

\* the scenario text, deduplicated, and its two matches
C17_Witness ==
    /\ ret.op = "extract"
    /\ ret.deduplicate
    /\ ret.text = ScenarioText
    /\ ret.jurisdiction = NoJurisdiction
    /\ Len(AllMatches) = 2
    /\ Len(ret.value) = 1
    /\ ret.value[1].position = 4

\* C18: deduplicating a deduplicated result changes nothing; the
\* deduplicated result is a subsequence of the result without deduplication
\* and has the same set of normalized forms
C18_Idempotent ==
    ret.op = "extract" /\ ret.deduplicate =>
        LET all == AllMatches
        IN  /\ _deduplicate(ret.value) = ret.value
            /\ IsSubsequence(ret.value, all)
            /\ NormalizedForms(ret.value) = NormalizedForms(all)

\* a result with two normalized forms from which deduplication removed a
\* citation
C18_Witness ==
    /\ ret.op = "extract"
    /\ ret.deduplicate
    /\ Len(ret.value) = 2
    /\ Len(AllMatches) > 2
    /\ Cardinality(NormalizedForms(ret.value)) = 2
    /\ C18_Idempotent

NoDate == <<>>

\* datetime(year, 1, 1)
datetime(year) == <<year>>

\* datetime(year, 1, 1, tzinfo=timezone.utc)
aware(year) == <<year, "UTC">>

\* an aware and a naive datetime cannot be ordered: a > b raises TypeError
comparable(a, b) == Len(a) = Len(b)

\* a > b for two datetimes that can be ordered
after(a, b) == a[1] > b[1]

\* None for completeness_score
NoScore == [num |-> 0, den |-> 0]

\* datetime.now()
Now == 2026

\* case_data.get(key, default)
get(case_data, key, default) ==
    IF key \in DOMAIN case_data THEN case_data[key] ELSE default

\* sub in text
Contains(text, sub) ==
    \E i \in 1..(Len(text) - Len(sub) + 1) : SubSeq(text, i, i + Len(sub) - 1) = sub

\* str(n) for n >= 0
RECURSIVE str(_)
str(n) ==
    LET digit == <<"0", "1", "2", "3", "4", "5", "6", "7", "8", "9">>[(n % 10) + 1]
    IN  IF n < 10 THEN <<digit>> ELSE Append(str(n \div 10), digit)

\* the error f"{field}: {msg}"
Error(field, msg) == [field |-> field, msg |-> msg]

\* the warning f"{field}{msg}{detail}"
Warning(field, msg, detail) == [field |-> field, msg |-> msg, detail |-> detail]

\* ------------------------------------------------------ ValidatedCaseData

\* a str field under str_strip_whitespace with min_length and max_length
\* (max_length 0: none): its errors
StrErrors(case_data, key, required, min_length, max_length, too_long) ==
    IF key \notin DOMAIN case_data
    THEN IF required THEN <<Error(key, "Field required")>> ELSE <<>>
    ELSE LET v == strip(case_data[key])
         IN  IF Len(v) < min_length
             THEN <<Error(key, "String should have at least 1 character")>>
             ELSE IF max_length > 0 /\ Len(v) > max_length
             THEN <<Error(key, too_long)>>
             ELSE <<>>

\* HttpUrl: whether the str is accepted as a URL
IsHttpUrl(v) ==
    \E scheme \in {<<"h", "t", "t", "p", ":", "/", "/">>, <<"h", "t", "t", "p", "s", ":", "/", "/">>} :
        /\ Len(v) > Len(scheme)
        /\ SubSeq(v, 1, Len(scheme)) = scheme
        /\ v[Len(scheme) + 1] \notin {"/", " ", "."}

UrlErrors(case_data, key) ==
    IF key \in DOMAIN case_data /\ ~IsHttpUrl(case_data[key])
    THEN <<Error(key, "Input should be a valid URL")>>
    ELSE <<>>

\* completeness_score: Optional[float] = Field(None, ge=0.0, le=1.0)
ScoreErrors(case_data) ==
    IF "completeness_score" \notin DOMAIN case_data THEN <<>>
    ELSE IF Less(case_data["completeness_score"], Zero)
    THEN <<Error("completeness_score", "Input should be greater than or equal to 0")>>
    ELSE IF Less(One, case_data["completeness_score"])
    THEN <<Error("completeness_score", "Input should be less than or equal to 1")>>
    ELSE <<>>

\* the values of CaseOutcome
CaseOutcome ==
    {<<"a", "f", "f", "i", "r", "m", "e", "d">>, <<"r", "e", "v", "e", "r", "s", "e", "d">>,
     <<"r", "e", "m", "a", "n", "d", "e", "d">>, <<"d", "i", "s", "m", "i", "s", "s", "e", "d">>,
     <<"g", "r", "a", "n", "t", "e", "d">>, <<"d", "e", "n", "i", "e", "d">>,
     <<"s", "e", "t", "t", "l", "e", "d">>, <<"w", "i", "t", "h", "d", "r", "a", "w", "n">>,
     <<"p", "e", "n", "d", "i", "n", "g">>, <<"o", "t", "h", "e", "r">>}

\* outcome: Optional[CaseOutcome]
OutcomeErrors(case_data) ==
    IF "outcome" \in DOMAIN case_data /\ case_data["outcome"] \notin CaseOutcome
    THEN <<Error("outcome", "Input should be a value of CaseOutcome")>>
    ELSE <<>>

\* the errors of the fields, in the order of the fields of the class
FieldErrors(case_data) ==
    StrErrors(case_data, "case_name", TRUE, 1, 1000,
              "String should have at most 1000 characters")
    \o StrErrors(case_data, "jurisdiction", TRUE, 1, 0, "")
    \o StrErrors(case_data, "court", FALSE, 0, 500,
                 "String should have at most 500 characters")
    \o UrlErrors(case_data, "url")
    \o StrErrors(case_data, "summary", FALSE, 0, 5000,
                 "String should have at most 5000 characters")
    \o OutcomeErrors(case_data)
    \o ScoreErrors(case_data)

\* validate_case_name, after the field has been stripped
validate_case_name(v) == join(split(v))

\* [item.strip() for item in v if item and item.strip()]
RECURSIVE remove_empty_strings(_)
remove_empty_strings(v) ==
    IF v = <<>> THEN <<>>
    ELSE IF strip(Head(v)) = <<>> THEN remove_empty_strings(Tail(v))
    ELSE <<strip(Head(v))>> \o remove_empty_strings(Tail(v))

\* a list field as it is given
keep_empty_strings(v) == v

\* an optional str field, stripped
OptionalStr(case_data, key) == strip(get(case_data, key, Empty))

\* the model after the validation of its fields
Fields(case_data) ==
    [case_name |-> validate_case_name(strip(case_data["case_name"])),
     jurisdiction |-> strip(case_data["jurisdiction"]),
     case_id |-> OptionalStr(case_data, "case_id"),
     docket_number |-> OptionalStr(case_data, "docket_number"),
     court |-> OptionalStr(case_data, "court"),
     date |-> get(case_data, "date", NoDate),
     filing_date |-> get(case_data, "filing_date", NoDate),
     url |-> get(case_data, "url", Empty),
     full_text |-> OptionalStr(case_data, "full_text"),
     summary |-> OptionalStr(case_data, "summary"),
     holding |-> OptionalStr(case_data, "holding"),
     judges |-> remove_empty_strings(get(case_data, "judges", <<>>)),
     parties |-> remove_empty_strings(get(case_data, "parties", <<>>)),
     legal_issues |-> remove_empty_strings(get(case_data, "legal_issues", <<>>)),
     citations |-> remove_empty_strings(get(case_data, "citations", <<>>)),
     is_published |-> get(case_data, "is_published", TRUE),
     case_type |-> OptionalStr(case_data, "case_type"),
     outcome |-> get(case_data, "outcome", Empty),
     completeness_score |-> get(case_data, "completeness_score", NoScore),
     metadata |-> get(case_data, "metadata", EmptyDict),
     model_fields_set |-> DOMAIN case_data]

\* an exception that is no ValidationError
TypeError == [raised |-> "TypeError"]

Raised(outcome) == "raised" \in DOMAIN outcome

\* no date rule: no errors
no_date_rule(this) == [errors |-> <<>>]

\* validate_dates: its errors, or the TypeError of a comparison
validate_dates(this) ==
    IF this.filing_date # NoDate /\ this.date # NoDate
       /\ ~comparable(this.filing_date, this.date)
    THEN TypeError
    ELSE IF this.filing_date # NoDate /\ this.date # NoDate
            /\ after(this.filing_date, this.date)
    THEN [errors |->
             <<Error("", "Value error, Filing date cannot be after decision date")>>]
    ELSE IF this.date # NoDate /\ ~comparable(this.date, datetime(Now))
    THEN TypeError
    ELSE IF this.date # NoDate /\ after(this.date, datetime(Now))
    THEN [errors |->
             <<Error("", "Value error, Decision date cannot be in the future")>>]
    ELSE [errors |-> <<>>]

\* the fields counted by calculate_completeness
CoreFields == {"case_name", "jurisdiction", "case_id", "court", "url", "summary"}

ListFields == {"judges", "parties", "legal_issues", "citations"}

\* the score computed whatever was supplied
completeness_overwritten(this) ==
    [this EXCEPT !.completeness_score =
        Div(Cardinality({f \in CoreFields \cup ListFields : this[f] # <<>>})
            + (IF this.date # NoDate THEN 1 ELSE 0), 11)]

\* calculate_completeness
calculate_completeness(this) ==
    IF this.completeness_score # NoScore THEN this
    ELSE LET filled_fields ==
                 Cardinality({f \in CoreFields \cup ListFields : this[f] # <<>>})
                 + (IF this.date # NoDate THEN 1 ELSE 0)
             total_fields == Cardinality(CoreFields) + 1 + Cardinality(ListFields)
         IN  [this EXCEPT !.completeness_score = Div(filled_fields, total_fields)]

\* the model validators in their order: dates is the outcome of the first
model_validators(this, dates) ==
    IF Raised(dates) THEN dates
    ELSE IF dates.errors # <<>> THEN dates
    ELSE [errors |-> <<>>, model |-> calculate_completeness(this)]

\* ValidatedCaseData(**case_data): the model, or the errors of the
\* ValidationError, or the exception a validator raised
ValidatedCaseData(case_data) ==
    IF FieldErrors(case_data) # <<>>
    THEN [errors |-> FieldErrors(case_data)]
    ELSE model_validators(Fields(case_data), validate_dates(Fields(case_data)))

\* ----------------------------------------------------- ValidationPipeline

\* the warning for each citation for which the test holds
RECURSIVE citation_warnings(_)
citation_warnings(citations) ==
    IF citations = <<>> THEN <<>>
    ELSE (IF Len(Head(citations)) < 5 \/ \A i \in DOMAIN Head(citations) :
                                              Head(citations)[i] \notin Digit
          THEN <<Warning("", "Suspicious citation format: ", Head(citations))>>
          ELSE <<>>)
         \o citation_warnings(Tail(citations))

\* [w] if the condition holds
When(condition, warning) == IF condition THEN <<warning>> ELSE <<>>

\* no business rule
no_business_rules(case) == <<>>

_validate_business_rules(case) ==
    When(case.date # NoDate /\ case.date[1] < 1800,
         Warning("", "Case date is unusually old: ", str(case.date[1])))
    \o When(Len(case.case_name) > 500,
            Warning("", "Case name is unusually long (>500 chars)", <<>>))
    \o When(case.case_id = Empty /\ case.docket_number = Empty,
            Warning("", "No case ID or docket number provided", <<>>))
    \o When(case.court = Empty, Warning("", "Court name is missing", <<>>))
    \o When(case.date = NoDate, Warning("", "Decision date is missing", <<>>))
    \o When(case.is_published /\ case.citations = <<>>,
            Warning("", "Published case has no citations", <<>>))
    \o citation_warnings(case.citations)

placeholder_texts ==
    <<<<"l", "o", "r", "e", "m", " ", "i", "p", "s", "u", "m">>, <<"t", "e", "s", "t">>, <<"e", "x", "a", "m", "p", "l", "e">>,
      <<"[", "p", "l", "a", "c", "e", "h", "o", "l", "d", "e", "r", "]">>, <<"t", "o", "d", "o">>, <<"t", "b", "d">>, <<"n", "/", "a">>,
      <<"n", "u", "l", "l">>, <<"n", "o", "n", "e">>, <<"u", "n", "k", "n", "o", "w", "n">>>>

\* the warnings of one field for the placeholders from the p-th on
RECURSIVE placeholder_warnings(_, _, _)
placeholder_warnings(field_name, value_lower, p) ==
    IF p > Len(placeholder_texts) THEN <<>>
    ELSE When(Contains(value_lower, placeholder_texts[p]),
              Warning(field_name, " contains placeholder text: ", placeholder_texts[p]))
         \o placeholder_warnings(field_name, value_lower, p + 1)

\* the warning for each of the fields that holds both < and >
RECURSIVE html_warnings(_, _)
html_warnings(case, field_names) ==
    IF field_names = <<>> THEN <<>>
    ELSE When("<" \in Range(case[Head(field_names)]) /\ ">" \in Range(case[Head(field_names)]),
              Warning(Head(field_names), " contains HTML tags", <<>>))
         \o html_warnings(case, Tail(field_names))

\* unique_words < len(words) * 0.3 for more than 50 words
repetition_warnings(case) ==
    LET words_ == split(case.full_text)
    IN  When(Len(words_) > 50 /\ 10 * Cardinality(Range(words_)) < 3 * Len(words_),
             Warning("", "Full text has unusually high word repetition", <<>>))

RECURSIVE placeholder_fields(_, _)
placeholder_fields(case, field_names) ==
    IF field_names = <<>> THEN <<>>
    ELSE placeholder_warnings(Head(field_names), lower(case[Head(field_names)]), 1)
         \o placeholder_fields(case, Tail(field_names))

_check_suspicious_patterns(case) ==
    html_warnings(case, <<"case_name", "summary", "holding">>)
    \o repetition_warnings(case)
    \o placeholder_fields(case, <<"case_name", "summary", "court">>)

\* ValidationPipeline.validate_case of a pipeline with self.strict = strict
validate_case(strict, case_data) ==
    LET validated == ValidatedCaseData(case_data)
    IN  IF Raised(validated) THEN validated
        ELSE IF validated.errors = <<>>
        THEN LET warnings == _validate_business_rules(validated.model)
                             \o _check_suspicious_patterns(validated.model)
             IN  [is_valid |-> IF ~strict THEN TRUE ELSE Len(warnings) = 0,
                  errors |-> <<>>,
                  warnings |-> warnings,
                  completeness_score |->
                      IF validated.model.completeness_score.num = 0 THEN Zero
                      ELSE validated.model.completeness_score,
                  validated_data |-> <<validated.model>>]
        ELSE [is_valid |-> FALSE,
              errors |-> validated.errors,
              warnings |-> <<>>,
              completeness_score |-> Zero,
              validated_data |-> <<>>]

\* pipeline = ValidationPipeline(strict=strict)
\* return pipeline.validate_case(case_data)
validate_case_data(case_data, strict) == validate_case(strict, case_data)

\* ----------------------------------------------- specification: validation

MaxEdits == 2

\* n times the character ch
Repeat(ch, n) == [i \in 1..n |-> ch]

\* a text of n words, k of them different
WordsOf(n, k) ==
    join([i \in 1..n |-> <<ascii_lowercase[(i % k) + 1]>>])

\* the record of the scenario
ScenarioCase ==
    [k \in {"case_name", "jurisdiction"} |->
        IF k = "case_name" THEN <<"S", "m", "i", "t", "h", " ", "v", ".", " ", "J", "o", "n", "e", "s">> ELSE <<"U", "S">>]

\* the changes of a record: a key removed, or a key given a value
Remove(key) == <<key, FALSE, <<>>>>

Give(keys, values) == {<<e[1], TRUE, e[2]>> : e \in keys \X values}

Edits ==
    {Remove("case_name"), Remove("jurisdiction")}
    \cup Give({"case_name"}, {<<>>, <<" ">>, <<" ", "S", "m", "i", "t", "h", " ", " ", "v", ".", " ", " ", "J", "o", "n", "e", "s", " ">>, <<"<", "b", ">", "R", "o", "e", "<", "/", "b", ">">>,
                              <<"C", "o", "n", "t", "e", "s", "t">>, Repeat("a", 501), Repeat("a", 1001)})
    \cup Give({"jurisdiction"}, {<<>>, <<" ", "U", "K", " ">>})
    \cup Give({"case_id"}, {<<"c", "1">>})
    \cup Give({"docket_number"}, {<<"d", "1">>, <<" ">>})
    \cup Give({"court"}, {<<"H", "i", "g", "h", " ", "C", "o", "u", "r", "t">>, <<"U", "n", "k", "n", "o", "w", "n">>, Repeat("a", 501)})
    \cup Give({"date"}, {datetime(1799), datetime(1800), datetime(2020),
                         datetime(Now + 1), aware(2020), aware(Now + 1)})
    \cup Give({"filing_date"}, {datetime(2019), datetime(2021), aware(2019)})
    \cup Give({"url"}, {<<"h", "t", "t", "p", "s", ":", "/", "/", "a", ".", "b", "/", "c">>, <<"a", ".", "b">>})
    \cup Give({"full_text"}, {WordsOf(50, 1), WordsOf(51, 15), WordsOf(51, 16)})
    \cup Give({"summary"}, {<<"A", " ", "s", "u", "m", "m", "a", "r", "y">>, <<"<", "p", ">", "n", "/", "a">>})
    \cup Give({"holding"}, {<<"a", " ", ">", " ", "b">>, <<"<", "i", ">">>})
    \cup Give({"judges"}, {<<<<"J">>>>, <<<<" ">>>>})
    \cup Give({"parties"}, {<<<<"R", "o", "e">>>>})
    \cup Give({"legal_issues"}, {<<<<"t", "o", "r", "t">>>>})
    \cup Give({"citations"}, {<<<<"4", "1", "0", " ", "U", ".", "S", ".", " ", "1", "1", "3">>>>, <<<<"a", "b", "c">>, <<" ", "1", " ", "U", ".", "S", ".", " ">>>>,
                              <<<<"I", "b", "i", "d", ".">>, <<>>>>})
    \cup Give({"is_published"}, {FALSE})
    \cup Give({"completeness_score"}, {Zero, [num |-> 1, den |-> 2], [num |-> 3, den |-> 2]})

\* the sets of up to n changes, no two of one key
RECURSIVE EditSets(_)
EditSets(n) ==
    IF n = 0 THEN {{}}
    ELSE EditSets(n - 1)
         \cup {c[1] \cup {c[2]} :
                  c \in {d \in EditSets(n - 1) \X Edits :
                            \A e \in d[1] : e[1] # d[2][1]}}

\* case_data after the changes
Edited(case_data, edits) ==
    [k \in (DOMAIN case_data \ {e[1] : e \in {x \in edits : ~x[2]}})
           \cup {e[1] : e \in {x \in edits : x[2]}} |->
        IF \E e \in edits : e[1] = k
        THEN (CHOOSE e \in edits : e[1] = k)[3]
        ELSE case_data[k]]

\* a record without warnings
CleanCase ==
    Edited(ScenarioCase,
           {<<"case_id", TRUE, <<"c", "1">>>>,
            <<"court", TRUE, <<"H", "i", "g", "h", " ", "C", "o", "u", "r", "t">>>>,
            <<"date", TRUE, datetime(2020)>>,
            <<"citations", TRUE, <<<<"4", "1", "0", " ", "U", ".", "S", ".", " ", "1", "1", "3">>>>>>})

\* a record with every field that counts for the completeness
FullCase ==
    Edited(CleanCase,
           {<<"url", TRUE, <<"h", "t", "t", "p", "s", ":", "/", "/", "a", ".", "b", "/", "c">>>>,
            <<"summary", TRUE, <<"A", " ", "s", "u", "m", "m", "a", "r", "y">>>>,
            <<"judges", TRUE, <<<<"J">>>>>>,
            <<"parties", TRUE, <<<<"R", "o", "e">>>>>>,
            <<"legal_issues", TRUE, <<<<"t", "o", "r", "t">>>>>>})

\* the records: the record of the scenario with up to MaxEdits changes and
\* the full record with one change less
CaseDatas ==
    {Edited(ScenarioCase, edits) : edits \in EditSets(MaxEdits)}
    \cup {Edited(FullCase, edits) : edits \in EditSets(MaxEdits - 1)}

ValidateCaseData ==
    /\ Idle
    /\ \E case_data \in CaseDatas, strict \in BOOLEAN :
          ret' = [op |-> "validate_case", case_data |-> case_data,
                  strict |-> strict,
                  value |-> validate_case_data(case_data, strict)]
    /\ UNCHANGED frame

ValidateNext ==
    \/ ValidateCaseData
    \/ DropResult

ValidateSpec == Init /\ [][ValidateNext]_vars

\* ---------------------------------------------- reference notions: validation

\* the record passes schema construction
SchemaValid(case_data) ==
    /\ ~Raised(ValidatedCaseData(case_data))
    /\ ValidatedCaseData(case_data).errors = <<>>

\* the messages of a list of warnings
Messages(warnings) == {warnings[i].msg : i \in DOMAIN warnings}

\* C20: for a record that passes schema construction validate_case returns
\* no errors and the validated payload, is_valid is (not strict, or no
\* warnings), and the warnings are those of the other mode; a published
\* record named "Smith v. Jones" without citations has the warning
\* "Published case has no citations", is valid when strict=False and invalid
\* when strict=True
C20_ValidateCase ==
    ret.op = "validate_case" /\ SchemaValid(ret.case_data) =>
        /\ ret.value.errors = <<>>
        /\ ret.value.validated_data = <<ValidatedCaseData(ret.case_data).model>>
        /\ ret.value.is_valid = (~ret.strict \/ ret.value.warnings = <<>>)
        /\ ret.value.warnings = validate_case_data(ret.case_data, ~ret.strict).warnings
        /\ ret.value.validated_data[1].case_name = <<"S", "m", "i", "t", "h", " ", "v", ".", " ", "J", "o", "n", "e", "s">>
           /\ ret.value.validated_data[1].citations = <<>>
           /\ ret.value.validated_data[1].is_published
           => /\ "Published case has no citations" \in Messages(ret.value.warnings)
              /\ ret.value.is_valid = ~ret.strict

\* the record of the scenario with a case_id and a placeholder court,
\* rejected in strict mode for its warnings
C20_Witness ==
    /\ ret.op = "validate_case"
    /\ ret.strict
    /\ get(ret.case_data, "case_name", Empty) = <<"S", "m", "i", "t", "h", " ", "v", ".", " ", "J", "o", "n", "e", "s">>
    /\ "citations" \notin DOMAIN ret.case_data
    /\ "is_published" \notin DOMAIN ret.case_data
    /\ ret.value.errors = <<>>
    /\ ~ret.value.is_valid
    /\ {"Published case has no citations", " contains placeholder text: "}
           \subseteq Messages(ret.value.warnings)

\* the record violates the schema in one of the ways the description of the
\* case record lists: case_name missing, empty after whitespace
\* normalization or longer than 1000 characters, jurisdiction missing or
\* empty, filing date after decision date, decision date in the future
SchemaViolating(case_data) ==
    \/ "case_name" \notin DOMAIN case_data
    \/ join(split(get(case_data, "case_name", Empty))) = Empty
    \/ Len(strip(get(case_data, "case_name", Empty))) > 1000
    \/ "jurisdiction" \notin DOMAIN case_data
    \/ strip(get(case_data, "jurisdiction", Empty)) = Empty
    \/ /\ get(case_data, "filing_date", NoDate) # NoDate
       /\ get(case_data, "date", NoDate) # NoDate
       /\ case_data["filing_date"][1] > case_data["date"][1]
    \/ /\ get(case_data, "date", NoDate) # NoDate
       /\ case_data["date"][1] > Now

\* no datetime of the record is aware
NaiveDates(case_data) ==
    \A k \in {"date", "filing_date"} \cap DOMAIN case_data :
        case_data[k] = NoDate \/ comparable(case_data[k], datetime(Now))

\* validate_case returned the result of a schema failure
SchemaFailure(case_data, result) ==
    /\ ~Raised(result)
    /\ ~result.is_valid
    /\ result.errors # <<>>
    /\ result.completeness_score = Zero
    /\ result.validated_data = <<>>
    /\ "case_name" \notin DOMAIN case_data
       => \E i \in DOMAIN result.errors : result.errors[i].field = "case_name"

\* C21 as stated: for every schema-violating record validate_case does not
\* raise and returns, in both modes, is_valid=False, at least one error
\* "<field path>: <message>", completeness_score 0.0 and no validated
\* payload; a record without case_name has an error that names case_name
C21_Original ==
    ret.op = "validate_case" /\ SchemaViolating(ret.case_data) =>
        SchemaFailure(ret.case_data, ret.value)

\* C21 for the records whose datetimes are naive
C21_SchemaFailure ==
    ret.op = "validate_case" /\ SchemaViolating(ret.case_data)
    /\ NaiveDates(ret.case_data) =>
        SchemaFailure(ret.case_data, ret.value)

\* a record dated next year, rejected in lenient mode for its date alone
C21_Witness ==
    /\ ret.op = "validate_case"
    /\ ~ret.strict
    /\ get(ret.case_data, "date", NoDate) = datetime(Now + 1)
    /\ ~Raised(ret.value)
    /\ ~ret.value.is_valid
    /\ {ret.value.errors[i].msg : i \in DOMAIN ret.value.errors}
           = {"Value error, Decision date cannot be in the future"}

\* validate_case raised for a record dated next year with a UTC offset
C21_Raised ==
    /\ ret.op = "validate_case"
    /\ get(ret.case_data, "date", NoDate) = aware(Now + 1)
    /\ Raised(ret.value)

\* ------------------------------------------------------------ validate_batch

\* the fields whose default is None
OptionalFields ==
    {"case_id", "docket_number", "court", "date", "filing_date", "url",
     "full_text", "summary", "holding", "case_type", "outcome"}

\* the fields of model_dump() whose value is not None, [] or {}: the
\* required fields, the fields with another default (precedential_value,
\* is_published, language, scraped_at), completeness_score, the optional
\* fields that were given and the lists that are not empty
dumped_fields(model) ==
    {"case_name", "jurisdiction", "precedential_value", "is_published",
     "language", "scraped_at", "completeness_score"}
    \cup (OptionalFields \cap model.model_fields_set)
    \cup {f \in ListFields : model[f] # <<>>}
    \cup {f \in {"metadata"} : DOMAIN model[f] # {}}

\* q1 + q2
Add(q1, q2) == Div(q1.num * q2.den + q2.num * q1.den, q1.den * q2.den)

\* sum(completeness_scores)
RECURSIVE sum(_)
sum(scores) ==
    IF scores = <<>> THEN Zero ELSE Add(Head(scores), sum(Tail(scores)))

\* sum(completeness_scores) / len(completeness_scores)
mean_of(total, n) == Div(total.num, total.den * n)

\* score or 0.0
or_zero(score) == IF score.num = 0 THEN Zero ELSE score

\* completeness_scores: result.validated_data.completeness_score or 0.0 of
\* the valid results, in their order
completeness_scores(valid) ==
    [i \in DOMAIN valid |-> or_zero(valid[i].validated_data[1].completeness_score)]

\* field_counts: for each field the number of valid results that have it
field_counts(valid) ==
    [f \in UNION {dumped_fields(valid[i].validated_data[1]) : i \in DOMAIN valid} |->
        Cardinality({i \in DOMAIN valid :
                        f \in dumped_fields(valid[i].validated_data[1])})]

\* error.split(':')[0] if ':' in error else error, for the error
\* f"{field}: {msg}" whose field is a path of names
error_type(error) == error.field

\* the places <<i, j>> of the errors: the j-th error of the i-th result
error_places(invalid) ==
    UNION {{<<i, j>> : j \in DOMAIN invalid[i].errors} : i \in DOMAIN invalid}

\* error_counts: for each type the number of errors of the results
error_counts(invalid) ==
    [t \in {error_type(invalid[e[1]].errors[e[2]]) : e \in error_places(invalid)} |->
        Cardinality({e \in error_places(invalid) :
                        error_type(invalid[e[1]].errors[e[2]]) = t})]

\* metrics.fields_coverage[field_name] = (count / len(cases)) * 100
fields_coverage(counts, n) == [f \in DOMAIN counts |-> Div(counts[f] * 100, n)]

\* the metrics of a batch from the results of its valid and its other records
DataQualityMetrics(cases, valid, invalid) ==
    [total_cases |-> Len(cases),
     valid_cases |-> Len(valid),
     invalid_cases |-> Len(invalid),
     avg_completeness |->
         IF valid = <<>> THEN Zero
         ELSE mean_of(sum(completeness_scores(valid)), Len(valid)),
     fields_coverage |-> fields_coverage(field_counts(valid), Len(cases)),
     validation_errors |-> error_counts(invalid)]

\* the loop over the results; an exception of validate_case leaves it
batch_metrics(cases, results) ==
    IF \E idx \in DOMAIN results : Raised(results[idx])
    THEN (CHOOSE r \in Range(results) : Raised(r))
    ELSE DataQualityMetrics(cases,
                            SelectSeq(results, LAMBDA r : r.is_valid),
                            SelectSeq(results, LAMBDA r : ~r.is_valid))

validate_batch(strict, cases) ==
    batch_metrics(cases, [idx \in DOMAIN cases |-> validate_case(strict, cases[idx])])

\* pipeline = ValidationPipeline(strict=strict)
\* return pipeline.validate_batch(cases)
validate_case_batch(cases, strict) == validate_batch(strict, cases)

\* DataQualityMetrics.validation_rate
validation_rate(this) ==
    IF this.total_cases = 0 THEN Zero
    ELSE Div(this.valid_cases, this.total_cases)

\* the grades with a rate above each threshold only
grade_above(rate) ==
    IF Less(Div(19, 20), rate) THEN "A"
    ELSE IF Less(Div(9, 10), rate) THEN "B"
    ELSE IF Less(Div(4, 5), rate) THEN "C"
    ELSE IF Less(Div(7, 10), rate) THEN "D"
    ELSE "F"

\* the grade of a rate: 0.95 is 19/20, 0.90 is 9/10, 0.80 is 4/5, 0.70 is 7/10
grade_of(rate) ==
    IF LessEq(Div(19, 20), rate) THEN "A"
    ELSE IF LessEq(Div(9, 10), rate) THEN "B"
    ELSE IF LessEq(Div(4, 5), rate) THEN "C"
    ELSE IF LessEq(Div(7, 10), rate) THEN "D"
    ELSE "F"

\* DataQualityMetrics.quality_grade
quality_grade(this) == grade_of(validation_rate(this))

\* -------------------------------------------- specification: batch metrics

MaxRecords == 3

MaxTotal == 20

\* the records of the batches: two valid records (one with warnings), a
\* valid one with a blank docket number, one without case_name, one without
\* case_name and with a blank jurisdiction, one dated next year, and one
\* with an aware date
BatchRecords ==
    {ScenarioCase, CleanCase,
     Edited(CleanCase, {<<"docket_number", TRUE, <<" ">>>>}),
     Edited(ScenarioCase, {Remove("case_name")}),
     Edited(CleanCase, {Remove("case_name"), <<"jurisdiction", TRUE, <<" ">>>>}),
     Edited(CleanCase, {<<"date", TRUE, datetime(Now + 1)>>}),
     Edited(CleanCase, {<<"date", TRUE, aware(2020)>>})}

ValidateCaseBatch ==
    /\ Idle
    /\ \E cases \in SeqsUpTo(BatchRecords, MaxRecords), strict \in BOOLEAN :
          ret' = [op |-> "validate_batch", cases |-> cases, strict |-> strict,
                  value |-> validate_case_batch(cases, strict)]
    /\ UNCHANGED frame

\* the metrics of up to MaxTotal records
Counts ==
    {m \in [total_cases : 0..MaxTotal, valid_cases : 0..MaxTotal,
            invalid_cases : 0..MaxTotal] :
        m.valid_cases + m.invalid_cases = m.total_cases}

QualityGrade ==
    /\ Idle
    /\ \E this \in Counts :
          ret' = [op |-> "quality_grade", this |-> this,
                  rate |-> validation_rate(this),
                  value |-> quality_grade(this)]
    /\ UNCHANGED frame

MetricsNext ==
    \/ ValidateCaseBatch
    \/ QualityGrade
    \/ DropResult

MetricsSpec == Init /\ [][MetricsNext]_vars

\* ------------------------------------------- reference notions: batch metrics

\* validate_case on the record alone returns is_valid=True
ValidAlone(strict, case_data) ==
    /\ ~Raised(validate_case_data(case_data, strict))
    /\ validate_case_data(case_data, strict).is_valid

\* the records of the batch that are valid alone, and the others
ValidOf(strict, cases) == SelectSeq(cases, LAMBDA c : ValidAlone(strict, c))

InvalidOf(strict, cases) == SelectSeq(cases, LAMBDA c : ~ValidAlone(strict, c))

\* the mean completeness of the records, 0.0 if there is none
MeanCompleteness(strict, records) ==
    IF records = <<>> THEN Zero
    ELSE mean_of(sum([i \in DOMAIN records |->
                         validate_case_data(records[i], strict).completeness_score]),
                 Len(records))

\* no datetime of the batch is aware
NaiveBatch(cases) == \A i \in DOMAIN cases : NaiveDates(cases[i])

\* the counts and the average of the metrics are those of the claim
CountsOf(strict, cases, metrics) ==
    /\ ~Raised(metrics)
    /\ metrics.total_cases = Len(cases)
    /\ metrics.valid_cases + metrics.invalid_cases = metrics.total_cases
    /\ metrics.valid_cases = Len(ValidOf(strict, cases))
    /\ metrics.avg_completeness = MeanCompleteness(strict, ValidOf(strict, cases))

\* C22 as stated: validate_batch never aborts; valid_cases + invalid_cases
\* = total_cases = the number of records, a record is counted valid exactly
\* when validate_case on it alone returns is_valid=True, and
\* avg_completeness is the mean completeness of the valid records (0.0 when
\* there is none)
C22_Original ==
    ret.op = "validate_batch" => CountsOf(ret.strict, ret.cases, ret.value)

\* C22 for the batches whose datetimes are naive
C22_Counts ==
    ret.op = "validate_batch" /\ NaiveBatch(ret.cases) =>
        CountsOf(ret.strict, ret.cases, ret.value)

\* validate_batch raised after a record without warnings
C22_Raised ==
    /\ ret.op = "validate_batch"
    /\ Len(ret.cases) = 2
    /\ ret.cases[1] = CleanCase
    /\ Raised(ret.value)

\* the field is present and not empty in the validated record
Filled(model, f) ==
    /\ f \in dumped_fields(model)
    /\ f \in (OptionalFields \ {"date", "filing_date"}) => model[f] # Empty

\* the validated records of the valid records of the batch
ModelsOf(strict, cases) ==
    [i \in DOMAIN ValidOf(strict, cases) |->
        validate_case_data(ValidOf(strict, cases)[i], strict).validated_data[1]]

\* 100 times the share of the records in which the field is filled
FilledShare(models, f) ==
    Div(100 * Cardinality({i \in DOMAIN models : Filled(models[i], f)}), Len(models))

\* C23 as stated: the coverage of each field is 100 times the number of
\* valid records in which the field is present and non-empty, divided by
\* the number of valid records
C23_Original ==
    ret.op = "validate_batch" /\ ~Raised(ret.value) =>
        \A f \in DOMAIN ret.value.fields_coverage :
            ret.value.fields_coverage[f]
                = FilledShare(ModelsOf(ret.strict, ret.cases), f)

\* a valid record and a record without case_name: case_name has coverage 50
C23_Halved ==
    /\ ret.op = "validate_batch"
    /\ ~ret.strict
    /\ ret.cases = <<CleanCase, Edited(ScenarioCase, {Remove("case_name")})>>
    /\ ret.value.valid_cases = 1
    /\ ret.value.fields_coverage["case_name"] = Div(50, 1)

\* the number of errors of the category among the records that are not
\* valid alone
ErrorsOf(strict, cases, category) ==
    Cardinality({e \in UNION {{<<i, j>> : j \in DOMAIN validate_case_data(InvalidOf(strict, cases)[i], strict).errors} :
                                 i \in DOMAIN InvalidOf(strict, cases)} :
                    validate_case_data(InvalidOf(strict, cases)[e[1]], strict).errors[e[2]].field
                        = category})

\* C24 as stated: in both modes every record counted in invalid_cases adds
\* one occurrence to validation_errors for each of its errors, under the
\* text before the first colon, so invalid_cases > 0 implies that
\* validation_errors is not empty
C24_Original ==
    ret.op = "validate_batch" /\ ~Raised(ret.value) =>
        /\ \A t \in DOMAIN ret.value.validation_errors :
               ret.value.validation_errors[t] = ErrorsOf(ret.strict, ret.cases, t)
        /\ ret.value.invalid_cases > 0 => DOMAIN ret.value.validation_errors # {}

\* C24 without its conclusion: the occurrences are those of the errors
C24_Itemized ==
    ret.op = "validate_batch" /\ ~Raised(ret.value) =>
        \A t \in DOMAIN ret.value.validation_errors \cup {"case_name", "jurisdiction", ""} :
            (IF t \in DOMAIN ret.value.validation_errors
             THEN ret.value.validation_errors[t] ELSE 0)
                = ErrorsOf(ret.strict, ret.cases, t)

\* strict mode: a record rejected for its warnings is counted invalid and
\* nothing is itemized
C24_Unitemized ==
    /\ ret.op = "validate_batch"
    /\ ret.strict
    /\ ret.cases = <<ScenarioCase>>
    /\ ret.value.invalid_cases = 1
    /\ DOMAIN ret.value.validation_errors = {}

\* the grades from the worst to the best
Rank(grade) ==
    CASE grade = "A" -> 4 [] grade = "B" -> 3 [] grade = "C" -> 2
      [] grade = "D" -> 1 [] grade = "F" -> 0

\* C25: the grade is A when valid_cases / total_cases is at least 0.95, B
\* at least 0.90, C at least 0.80, D at least 0.70, otherwise F; a batch
\* with a higher rate never has a worse grade; no records give rate 0 and F
C25_Grade ==
    ret.op = "quality_grade" =>
        LET valid == ret.this.valid_cases
            total == ret.this.total_cases
        IN  /\ ret.value = (IF total > 0 /\ 100 * valid >= 95 * total THEN "A"
                            ELSE IF total > 0 /\ 100 * valid >= 90 * total THEN "B"
                            ELSE IF total > 0 /\ 100 * valid >= 80 * total THEN "C"
                            ELSE IF total > 0 /\ 100 * valid >= 70 * total THEN "D"
                            ELSE "F")
            /\ \A other \in Counts :
                   Less(validation_rate(other), ret.rate)
                   => Rank(ret.value) >= Rank(quality_grade(other))
            /\ total = 0 => ret.rate = Zero /\ ret.value = "F"

\* 19 valid records of 20: the rate is 0.95 and the grade A
C25_Witness ==
    /\ ret.op = "quality_grade"
    /\ ret.this.total_cases = 20
    /\ ret.this.valid_cases = 19
    /\ ret.rate = Div(19, 20)
    /\ ret.value = "A"

\* the number of the fields case_name, jurisdiction, case_id, court, date,
\* url, summary, judges, parties, legal_issues and citations of the
\* validated record that are not empty
FilledFields(model) ==
    Cardinality({f \in {"case_name", "jurisdiction", "case_id", "court", "date",
                        "url", "summary", "judges", "parties", "legal_issues",
                        "citations"} : model[f] # <<>>})

\* C26: for a schema-valid record without completeness_score the score is
\* the number of non-empty fields among the eleven, divided by 11, and lies
\* between 2/11 and 1; a supplied completeness_score is kept; in both cases
\* validate_case reports the score of the validated record
C26_Completeness ==
    ret.op = "validate_case" /\ SchemaValid(ret.case_data) =>
        /\ IF "completeness_score" \in DOMAIN ret.case_data
           THEN ret.value.validated_data[1].completeness_score
                    = ret.case_data["completeness_score"]
           ELSE /\ ret.value.validated_data[1].completeness_score
                       = Div(FilledFields(ret.value.validated_data[1]), 11)
                /\ LessEq(Div(2, 11), ret.value.validated_data[1].completeness_score)
                /\ LessEq(ret.value.validated_data[1].completeness_score, One)
        /\ ret.value.completeness_score
               = ret.value.validated_data[1].completeness_score

\* the full record with a supplied score of 0.5: the score stays 0.5
C26_Witness ==
    /\ ret.op = "validate_case"
    /\ DOMAIN ret.case_data = DOMAIN FullCase \cup {"completeness_score"}
    /\ ret.case_data["completeness_score"] = Div(1, 2)
    /\ ret.value.is_valid
    /\ FilledFields(ret.value.validated_data[1]) = 11
    /\ ret.value.completeness_score = Div(1, 2)

\* the full record: the derived score is 1.0
C26_Full ==
    /\ ret.op = "validate_case"
    /\ ret.case_data = FullCase
    /\ ret.value.completeness_score = One

\* ----------------------------------------------------------- legacy records

\* the fields of the legacy record CaseData that the conversions read and
\* write; None is Empty, as in the validated model
LegacyFields ==
    {"case_name", "case_id", "court", "date", "url", "full_text", "summary",
     "judges", "parties", "legal_issues", "citations", "jurisdiction",
     "case_type", "outcome", "metadata"}

\* the entries of a dict whose value is not None: ValidatedCaseData gives a
\* field without entry its default, which is None for these
without_none(case_dict) ==
    [k \in {key \in DOMAIN case_dict :
               key \in {"case_id", "court", "date", "url", "full_text", "summary",
                        "case_type", "outcome"} => case_dict[key] # Empty} |->
        case_dict[k]]

\* convert_legacy_case
convert_legacy_case(strict, case) ==
    validate_case(strict,
                  without_none(
                      [k \in LegacyFields |->
                          IF k = "jurisdiction" /\ case[k] = Empty
                          THEN <<"u", "n", "k", "n", "o", "w", "n">>
                          ELSE case[k]]))

\* self.outcome.value for an outcome that is a str
AttributeError == [raised |-> "AttributeError"]

\* to_legacy_format: use_enum_values=True makes outcome the value of the
\* member, a str, which has no attribute value
to_legacy_format(this) ==
    IF this.outcome # Empty THEN AttributeError
    ELSE [k \in LegacyFields |-> IF k = "outcome" THEN Empty ELSE this[k]]

\* ------------------------------------------- specification: legacy records

MaxChanges == 2

\* the record of the test fixtures
LegacyCase ==
    [k \in LegacyFields |->
        CASE k = "case_name" -> <<"T", "e", "s", "t", " ", "v", ".", " ", "E", "x", "a", "m", "p", "l", "e">>
          [] k = "case_id" -> <<"T", "E", "S", "T", "-", "0", "0", "1">>
          [] k = "court" -> <<"T", "e", "s", "t", " ", "C", "o", "u", "r", "t">>
          [] k = "date" -> datetime(2023)
          [] k = "url" -> <<"h", "t", "t", "p", "s", ":", "/", "/", "e", "x", "a", "m", "p", "l", "e", ".", "c", "o", "m", "/", "c", "a", "s", "e", "/", "1">>
          [] k = "jurisdiction" -> <<"U", "S">>
          [] k = "metadata" -> EmptyDict
          [] OTHER -> Empty]

\* the changes of a legacy record: a field given another value
Changes ==
    Give({"case_name"}, {Empty, <<" ", "T", "e", "s", "t", " ", " ", "v", ".", " ", " ", "E", "x", "a", "m", "p", "l", "e", " ">>})
    \cup Give({"jurisdiction"}, {Empty, <<" ", "U", "K">>})
    \cup Give({"court"}, {Empty, <<"U", "n", "k", "n", "o", "w", "n">>})
    \cup Give({"date"}, {NoDate, datetime(Now + 1)})
    \cup Give({"summary"}, {<<"A", " ", "s", "u", "m", "m", "a", "r", "y">>})
    \cup Give({"judges"}, {<<<<"J">>, <<" ">>>>})
    \cup Give({"citations"}, {<<<<"4", "1", "0", " ", "U", ".", "S", ".", " ", "1", "1", "3">>>>})
    \cup Give({"case_type"}, {<<"c", "i", "v", "i", "l">>})
    \cup Give({"outcome"}, {<<"a", "f", "f", "i", "r", "m", "e", "d">>, <<"w", "o", "n">>})
    \cup Give({"metadata"}, {[source |-> "fixture"]})

\* the sets of up to n changes, no two of one field
RECURSIVE ChangeSets(_)
ChangeSets(n) ==
    IF n = 0 THEN {{}}
    ELSE ChangeSets(n - 1)
         \cup {c[1] \cup {c[2]} :
                  c \in {d \in ChangeSets(n - 1) \X Changes :
                            \A e \in d[1] : e[1] # d[2][1]}}

LegacyCases == {Edited(LegacyCase, changes) : changes \in ChangeSets(MaxChanges)}

ConvertLegacyCase ==
    /\ Idle
    /\ \E case \in LegacyCases, strict \in BOOLEAN :
          ret' = [op |-> "convert_legacy_case", case |-> case, strict |-> strict,
                  value |-> convert_legacy_case(strict, case)]
    /\ UNCHANGED frame

\* result.validated_data.to_legacy_format() on the result of a conversion
ToLegacyFormat ==
    /\ ret.op = "convert_legacy_case"
    /\ ~Raised(ret.value)
    /\ ret.value.validated_data # <<>>
    /\ ret' = [op |-> "to_legacy_format", case |-> ret.case,
               is_valid |-> ret.value.is_valid,
               this |-> ret.value.validated_data[1],
               value |-> to_legacy_format(ret.value.validated_data[1])]
    /\ UNCHANGED frame

LegacyNext ==
    \/ ConvertLegacyCase
    \/ ToLegacyFormat
    \/ DropResult

LegacySpec == Init /\ [][LegacyNext]_vars

\* C27 as stated: for every legacy record that convert_legacy_case
\* validates successfully, to_legacy_format of the validated payload
\* completes without error and returns a record equal to it in every
\* legacy field
C27_Original ==
    ret.op = "to_legacy_format" /\ ret.is_valid =>
        /\ ~Raised(ret.value)
        /\ \A k \in LegacyFields : ret.value[k] = ret.case[k]

\* the record of the fixtures comes back as it was
C27_Fixture ==
    /\ ret.op = "to_legacy_format"
    /\ ret.case = LegacyCase
    /\ ret.value = LegacyCase

\* the record of the fixtures with the outcome "affirmed" is valid, and
\* to_legacy_format raises
C27_Raised ==
    /\ ret.op = "to_legacy_format"
    /\ ret.is_valid
    /\ ret.case = [LegacyCase EXCEPT !["outcome"] = <<"a", "f", "f", "i", "r", "m", "e", "d">>]
    /\ Raised(ret.value)

\* without an outcome the conversion completes, and what differs is what
\* the schema normalizes: the whitespace of the strings and the blank
\* items of the lists, and the jurisdiction "unknown" of a record without
C27_Normalized ==
    ret.op = "to_legacy_format" /\ ret.case["outcome"] = Empty =>
        /\ ~Raised(ret.value)
        /\ \A k \in LegacyFields \ {"case_name", "jurisdiction", "judges"} :
               ret.value[k] = ret.case[k]
        /\ ret.value["case_name"] = join(split(ret.case["case_name"]))
        /\ ret.value["judges"] = remove_empty_strings(ret.case["judges"])
        /\ ret.value["jurisdiction"]
               = (IF ret.case["jurisdiction"] = Empty
                  THEN <<"u", "n", "k", "n", "o", "w", "n">>
                  ELSE strip(ret.case["jurisdiction"]))

\* ======================================================================
\* src/archive/v2-python/kite/utils/citation_validator.py
\* ======================================================================

\* pattern.pattern.search(text) is not None: the expression matches from
\* some word of the text on
search(pattern, tokens) ==
    \E t \in DOMAIN tokens : match_at(pattern, tokens, t, 0).n # 0

\* validate_citation that accepts every string
accept_all(patterns, citation_text) == TRUE

\* CitationExtractor.validate_citation, for the patterns of the extractor
validate_citation(patterns, citation_text) ==
    \E p \in DOMAIN patterns : search(patterns[p], words(citation_text))

\* the outcomes of validate_format; the last is the message
\* f"Citation is from {extracted[0].jurisdiction}, expected {jurisdiction}"
NoKnownFormat == [is_valid |-> FALSE, message |-> "Citation does not match any known format"]

CouldNotParse == [is_valid |-> FALSE, message |-> "Could not parse citation"]

WrongJurisdiction(actual, expected) ==
    [is_valid |-> FALSE, message |-> "Citation is from {}, expected {}",
     actual |-> actual, expected |-> expected]

Valid == [is_valid |-> TRUE, message |-> "None"]

\* the check of the jurisdiction of the first citation extracted
check_jurisdiction(extracted, jurisdiction) ==
    IF extracted = <<>> THEN CouldNotParse
    ELSE IF extracted[1].jurisdiction # jurisdiction
    THEN WrongJurisdiction(extracted[1].jurisdiction, jurisdiction)
    ELSE Valid

\* CitationValidator.validate_format; self.extractor = CitationExtractor()
\* has all the patterns
validate_format(citation, jurisdiction) ==
    IF ~validate_citation(ALL_PATTERNS, citation) THEN NoKnownFormat
    ELSE IF jurisdiction \notin {NoJurisdiction, ""}
    THEN check_jurisdiction(extract(ALL_PATTERNS, citation, TRUE), jurisdiction)
    ELSE Valid

\* ----------------------------------------- specification: validate_format

ValidateFormat ==
    /\ Idle
    /\ \E citation \in Texts, jurisdiction \in Jurisdictions :
          ret' = [op |-> "validate_format", citation |-> citation,
                  jurisdiction |-> jurisdiction,
                  value |-> validate_format(citation, jurisdiction)]
    /\ UNCHANGED frame

FormatNext ==
    \/ ValidateFormat
    \/ DropResult

FormatSpec == Init /\ [][FormatNext]_vars

\* the citation of the list with the lowest position and, among those, the
\* earliest pattern of the registry
First(citations) ==
    CHOOSE c \in CitationsIn(citations) :
        \A d \in CitationsIn(citations) :
            \/ c.position < d.position
            \/ /\ c.position = d.position
               /\ RegistryIndex(c.pattern_name) <= RegistryIndex(d.pattern_name)

\* the outcome the claim gives: `found` are the matches of all the
\* registered patterns in the string
Outcome(found, jurisdiction) ==
    IF found = <<>> THEN NoKnownFormat
    ELSE IF jurisdiction \notin {NoJurisdiction, ""}
            /\ First(found).jurisdiction # jurisdiction
    THEN WrongJurisdiction(First(found).jurisdiction, jurisdiction)
    ELSE Valid

\* C28: validate_format returns (False, "Citation does not match any known
\* format") exactly when no registered pattern matches the string;
\* otherwise, when a jurisdiction is given and the first citation extracted
\* has another jurisdiction, (False, a message naming both); otherwise
\* (True, None); it never returns "Could not parse citation"
C28_Outcomes ==
    ret.op = "validate_format" =>
        /\ ret.value = Outcome(extract_citations(ret.citation, NoJurisdiction, FALSE),
                               ret.jurisdiction)
        /\ ret.value # CouldNotParse

\* a string that is a citation both of the UK and of the Australian
\* patterns, checked against Australia: the first extracted is of the UK
C28_Witness ==
    /\ ret.op = "validate_format"
    /\ ret.jurisdiction = "Australia"
    /\ \E c \in CitationsIn(extract_citations(ret.citation, NoJurisdiction, FALSE)) :
          c.jurisdiction = "Australia"
    /\ ret.value = WrongJurisdiction("UK", "Australia")

====
